---- MODULE Spec2Model ----
(***************************************************************************)
(* Session boundary, session store and backend proxy of the Hubuum        *)
(* console (BFF layer).  Requests run concurrently; every await on the     *)
(* Valkey store or on the upstream API is a separate step, so requests on  *)
(* the same session interleave exactly at those points.                    *)
(*                                                                         *)
(* Strings are sequences of code points, cookie values of the token       *)
(* cookie are sequences of base64url digits (0..63), session ids are      *)
(* integers (a fresh integer stands for a fresh crypto.randomUUID()).      *)
(* An optional value is the empty sequence (null/undefined) or a          *)
(* one-element sequence.                                                   *)
(***************************************************************************)
EXTENDS Integers, Sequences, FiniteSets, TLC

VARIABLES mode, store, now, nextSid, req, started, issued, destroyed, revoked

(***************************************************************************)
(* Cookie writing (session.ts, cookieSettings): NODE_ENV, the request's    *)
(* x-forwarded-proto header and URL protocol, and the Set-Cookie table of  *)
(* the response being built.                                               *)
(***************************************************************************)
VARIABLES nodeEnv, xfProto, urlProto, respCookies

cookieVars == <<nodeEnv, xfProto, urlProto, respCookies>>

(***************************************************************************)
(* Environment and store factory (env.ts, session-store.ts): whether       *)
(* process.env holds a VALKEY_URL, the cached environment (cachedEnv), the *)
(* cached store instance (store of getSessionStore), the map of the        *)
(* in-memory store, and the last call made on the store interface with     *)
(* what it returned.                                                       *)
(***************************************************************************)
VARIABLES valkeyUrl, cachedEnv, storeInst, memMap, lastOp

storeVars == <<valkeyUrl, cachedEnv, storeInst, memMap, lastOp>>

(***************************************************************************)
(* Correlation ids (correlation.ts, proxy.ts): the x-correlation-id header *)
(* and the hubuum.cid cookie of a request, whether the request is an HTML  *)
(* navigation, and the id the last caller of normalizeCorrelationId chose  *)
(* together with the header value it was given.                            *)
(***************************************************************************)
VARIABLES cidHeader, cidCookie, cidNav, cidOut

\* the method and the accept header of the request, and what the middleware
\* put on the forwarded request and on its response
VARIABLES cidMethod, cidAccept, cidResp

corrVars == <<cidHeader, cidCookie, cidNav, cidOut, cidMethod, cidAccept, cidResp>>

(***************************************************************************)
(* One request through proxyToBackend with its data: the request as it     *)
(* arrived, the correlation id, the session resolved, the upstream request *)
(* issued, the upstream response received and the response returned.       *)
(***************************************************************************)
VARIABLES px

pxVars == <<px>>

(***************************************************************************)
(* Configuration (env.ts): process.env as the schema sees it, and the last *)
(* handler run with the operations it performed and how it ended.          *)
(***************************************************************************)
VARIABLES cfg

cfgVars == <<cfg>>

(***************************************************************************)
(* Page guards (guards.ts, admin.ts, the layouts): one render of a route   *)
(* with what its session resolutions and groups checks returned, the guard *)
(* calls performed and how the render ended.                               *)
(***************************************************************************)
VARIABLES pg

pgVars == <<pg>>

\* the variables of the session boundary, the store and the route handlers
sessionVars == <<mode, store, now, nextSid, req, started, issued, destroyed, revoked>>

\* the variables of the components that are exercised on their own
compVars == <<cookieVars, storeVars, corrVars, pxVars, cfgVars, pgVars>>

vars == <<sessionVars, compVars>>

(***************************************************************************)
(* Bounds of the model.                                                    *)
(***************************************************************************)
\* requests started in one behaviour
MaxRequests == 2
\* successful distributed logins (fresh session ids) in one behaviour
MaxSid == 1
\* clock ticks in one behaviour
MaxTime == 1

\* two requests may be in flight at a time
Slots == {1, 2}

Null == <<>>
Some(x) == <<x>>

(***************************************************************************)
(* Environment (env.ts): SESSION_TTL_SECONDS, in clock ticks.              *)
(***************************************************************************)
SESSION_TTL_SECONDS == 2

(***************************************************************************)
(* Session ids.  ForeignSid is an id no login of this model issued;        *)
(* CookieTokenSid is the fixed sid "cookie-token" of standalone sessions;  *)
(* CookieUuidSid is the "cookie-<uuid>" placeholder createSession returns  *)
(* in standalone mode.                                                     *)
(***************************************************************************)
NoSid == -1
ForeignSid == 0
CookieTokenSid == -2
CookieUuidSid == -3
StoreKeys == 0..MaxSid

(***************************************************************************)
(* Tokens the upstream login may return: "ab" (two UTF-8 bytes, three      *)
(* base64url digits) and "\u00E9b" (three bytes, four digits).             *)
(***************************************************************************)
Tokens == { <<97, 98>>, <<233, 98>> }

(***************************************************************************)
(* Buffer.from(value, "utf8"): UTF-8 bytes of a string of code points.     *)
(***************************************************************************)
Utf8Char(cp) ==
  IF cp < 128 THEN << cp >>
  ELSE IF cp < 2048 THEN << 192 + (cp \div 64), 128 + (cp % 64) >>
  ELSE IF cp < 65536
    THEN << 224 + (cp \div 4096), 128 + ((cp \div 64) % 64), 128 + (cp % 64) >>
    ELSE << 240 + (cp \div 262144), 128 + ((cp \div 4096) % 64),
            128 + ((cp \div 64) % 64), 128 + (cp % 64) >>

RECURSIVE Utf8Encode(_)
Utf8Encode(s) ==
  IF s = <<>> THEN <<>> ELSE Utf8Char(Head(s)) \o Utf8Encode(Tail(s))

(***************************************************************************)
(* buffer.toString("utf8"): decoding; an invalid byte becomes U+FFFD.      *)
(***************************************************************************)
IsCont(b) == b >= 128 /\ b < 192

RECURSIVE Utf8Decode(_)
Utf8Decode(b) ==
  IF b = <<>> THEN <<>>
  ELSE IF b[1] < 128 THEN << b[1] >> \o Utf8Decode(Tail(b))
  ELSE IF b[1] >= 194 /\ b[1] < 224 /\ Len(b) >= 2 /\ IsCont(b[2])
    THEN << (b[1] - 192) * 64 + (b[2] - 128) >> \o Utf8Decode(SubSeq(b, 3, Len(b)))
  ELSE IF b[1] >= 224 /\ b[1] < 240 /\ Len(b) >= 3 /\ IsCont(b[2]) /\ IsCont(b[3])
          /\ (b[1] = 224 => b[2] >= 160) /\ (b[1] = 237 => b[2] < 160)
    THEN << (b[1] - 224) * 4096 + (b[2] - 128) * 64 + (b[3] - 128) >>
         \o Utf8Decode(SubSeq(b, 4, Len(b)))
  ELSE IF b[1] >= 240 /\ b[1] < 245 /\ Len(b) >= 4
          /\ IsCont(b[2]) /\ IsCont(b[3]) /\ IsCont(b[4])
          /\ (b[1] = 240 => b[2] >= 144) /\ (b[1] = 244 => b[2] < 144)
    THEN << (b[1] - 240) * 262144 + (b[2] - 128) * 4096
            + (b[3] - 128) * 64 + (b[4] - 128) >>
         \o Utf8Decode(SubSeq(b, 5, Len(b)))
  ELSE << 65533 >> \o Utf8Decode(Tail(b))

(***************************************************************************)
(* buffer.toString("base64url"): three bytes give four digits, no padding. *)
(***************************************************************************)
\* a changed encoder: the final group of one or two bytes is dropped
RECURSIVE Base64UrlEncodeWholeGroups(_)
Base64UrlEncodeWholeGroups(b) ==
  IF Len(b) < 3 THEN <<>>
  ELSE << b[1] \div 4, (b[1] % 4) * 16 + (b[2] \div 16),
          (b[2] % 16) * 4 + (b[3] \div 64), b[3] % 64 >>
       \o Base64UrlEncodeWholeGroups(SubSeq(b, 4, Len(b)))

RECURSIVE Base64UrlEncode(_)
Base64UrlEncode(b) ==
  IF Len(b) = 0 THEN <<>>
  ELSE IF Len(b) = 1 THEN << b[1] \div 4, (b[1] % 4) * 16 >>
  ELSE IF Len(b) = 2
    THEN << b[1] \div 4, (b[1] % 4) * 16 + (b[2] \div 16), (b[2] % 16) * 4 >>
    ELSE << b[1] \div 4, (b[1] % 4) * 16 + (b[2] \div 16),
            (b[2] % 16) * 4 + (b[3] \div 64), b[3] % 64 >>
         \o Base64UrlEncode(SubSeq(b, 4, Len(b)))

(***************************************************************************)
(* Buffer.from(value, "base64url"): four digits give three bytes; a final  *)
(* group of two or three digits gives one or two bytes, a single trailing  *)
(* digit gives none.  It does not throw.                                   *)
(***************************************************************************)
RECURSIVE Base64UrlDecode(_)
Base64UrlDecode(c) ==
  IF Len(c) <= 1 THEN <<>>
  ELSE IF Len(c) = 2 THEN << c[1] * 4 + (c[2] \div 16) >>
  ELSE IF Len(c) = 3
    THEN << c[1] * 4 + (c[2] \div 16), (c[2] % 16) * 16 + (c[3] \div 4) >>
    ELSE << c[1] * 4 + (c[2] \div 16), (c[2] % 16) * 16 + (c[3] \div 4),
            (c[3] % 4) * 64 + c[4] >>
         \o Base64UrlDecode(SubSeq(c, 5, Len(c)))

encodeCookieValue(value) == Base64UrlEncode(Utf8Encode(value))

decodeCookieValue(value) == Utf8Decode(Base64UrlDecode(value))

\* a changed mode test: the store is used whether or not VALKEY_URL is set
AlwaysDistributed == TRUE

(***************************************************************************)
(* usesDistributedSessionStore(): Boolean(getServerEnv().VALKEY_URL).      *)
(* The environment is read once and cached, so the mode never changes.     *)
(***************************************************************************)
usesDistributedSessionStore == mode = "distributed"

(***************************************************************************)
(* Cookies of a request or response: the session-id cookie hubuum.sid and  *)
(* the token cookie hubuum.token.  An absent and an empty cookie are both  *)
(* falsy in the code and are one value here.                               *)
(***************************************************************************)
NoCookies == [sid |-> NoSid, tok |-> <<>>]

(***************************************************************************)
(* SessionPayload, and its JSON text as stored in Valkey.  A stored text   *)
(* is either the JSON of a payload or a text JSON.parse throws on.         *)
(***************************************************************************)
EmptyPayload == [token |-> <<>>, username |-> Null, createdAt |-> 0, lastSeen |-> 0]

JSONStringify(payload) == [json |-> TRUE, val |-> payload]

NotJson == [json |-> FALSE, val |-> EmptyPayload]

\* JSON.parse inside try/catch: the parsed payload, or null when it throws
JSONParseOrNull(raw) == IF raw.json THEN Some(raw.val) ELSE Null

(***************************************************************************)
(* Valkey commands on the key space: SET key value EX ttl, GET, DEL.       *)
(* A key whose expiry time has come is gone.                               *)
(***************************************************************************)
ValkeySetEx(s, k, raw, ttl) == [s EXCEPT ![k] = Some([raw |-> raw, exp |-> now + ttl])]

ValkeyGet(s, k) ==
  IF s[k] # Null /\ s[k][1].exp > now THEN Some(s[k][1].raw) ELSE Null

ValkeyDel(s, k) == [s EXCEPT ![k] = Null]

(***************************************************************************)
(* ValkeySessionStore: create, get, touch, destroy.                        *)
(***************************************************************************)
StoreCreate(s, sid, payload) == ValkeySetEx(s, sid, JSONStringify(payload), SESSION_TTL_SECONDS)

\* a changed get: the stored text is handed on without the try/catch
StoreGetUnchecked(s, sid) ==
  LET raw == ValkeyGet(s, sid) IN
  IF raw = Null THEN Null ELSE Some(raw[1].val)

StoreGet(s, sid) ==
  LET raw == ValkeyGet(s, sid) IN
  IF raw = Null THEN Null ELSE JSONParseOrNull(raw[1])

\* a changed touch: the record keeps the later lastSeen of the stored and
\* the given payload
StoreTouchMerging(s, sid, payload) ==
  LET old == StoreGet(s, sid)
      merged == IF old # Null /\ old[1].lastSeen > payload.lastSeen
                  THEN [payload EXCEPT !.lastSeen = old[1].lastSeen]
                  ELSE payload IN
  ValkeySetEx(s, sid, JSONStringify(merged), SESSION_TTL_SECONDS)

StoreTouch(s, sid, payload) == ValkeySetEx(s, sid, JSONStringify(payload), SESSION_TTL_SECONDS)

StoreDestroy(s, sid) == ValkeyDel(s, sid)

(***************************************************************************)
(* ActiveSession = SessionPayload & { sid }.                               *)
(***************************************************************************)
ActiveSession(sid, payload) ==
  [sid |-> sid, token |-> payload.token, username |-> payload.username,
   createdAt |-> payload.createdAt, lastSeen |-> payload.lastSeen]

PayloadOf(session) ==
  [token |-> session.token, username |-> session.username,
   createdAt |-> session.createdAt, lastSeen |-> session.lastSeen]

(***************************************************************************)
(* Responses.  kind: "json" (NextResponse.json), "redirect" (seeOther),    *)
(* "relay" (the upstream body), "raised" (the handler threw; the framework *)
(* answers 500).  cleared: clearSessionCookie was applied.  set: the       *)
(* cookies setSessionCookie gave a value.                                  *)
(***************************************************************************)
NoResponse == [status |-> 0, kind |-> "none", location |-> "", cleared |-> FALSE, set |-> NoCookies]

Json(status) == [NoResponse EXCEPT !.status = status, !.kind = "json"]

seeOther(location) == [NoResponse EXCEPT !.status = 303, !.kind = "redirect", !.location = location]

Relay(status) == [NoResponse EXCEPT !.status = status, !.kind = "relay"]

Raised == [NoResponse EXCEPT !.status = 500, !.kind = "raised"]

clearSessionCookie(response) == [response EXCEPT !.cleared = TRUE]

\* a changed setSessionCookie: the token cookie is written in both modes
setSessionCookieWithToken(response, sid, token) ==
  [response EXCEPT !.set = [sid |-> IF usesDistributedSessionStore THEN sid ELSE NoSid,
                            tok |-> encodeCookieValue(token)]]

setSessionCookie(response, sid, token) ==
  IF usesDistributedSessionStore
    THEN [response EXCEPT !.set = [sid |-> sid, tok |-> <<>>]]
    ELSE IF token # <<>>
      THEN [response EXCEPT !.set = [sid |-> NoSid, tok |-> encodeCookieValue(token)]]
      ELSE response

(***************************************************************************)
(* A request in a slot.  up: the upstream status received (0: none yet,    *)
(* -1: the fetch failed at the network level).  calls: upstream fetches    *)
(* issued.  afterRevoke: the request began after a proxied call bearing    *)
(* the same cookies had been answered 401 by the upstream.  storeFailed:   *)
(* a store command of the request was rejected.  slash: the request path   *)
(* ends with "/" (preserveTrailingSlash).                                  *)
(***************************************************************************)
Idle ==
  [kind |-> "idle", pc |-> "idle", method |-> "", path |-> <<>>, slash |-> FALSE,
   jar |-> NoCookies, storeFailed |-> FALSE,
   ctype |-> "", body |-> "", fromForm |-> FALSE, token |-> <<>>, newSid |-> NoSid,
   sess |-> Null, resolved |-> FALSE, up |-> 0, calls |-> 0, afterRevoke |-> FALSE,
   resp |-> NoResponse]

Done(rq, response) == [rq EXCEPT !.pc = "done", !.resp = response]

(***************************************************************************)
(* Slots are bookkeeping, not program state: a new request takes the       *)
(* lowest slot that holds no request in flight, and the response of a      *)
(* finished request is kept only until the next step of any request.       *)
(***************************************************************************)
InFlight(r) == req[r].pc \notin {"idle", "done"}

\* a request waiting for the upstream API, which holds no state of this model
AwaitsUpstream(r) == req[r].pc \in {"fetch", "loginUp", "logoutUp"}

\* the upstream's answer is delivered before any other step is taken
Quiet == \A q \in Slots : ~AwaitsUpstream(q)

Free(r) ==
  /\ Quiet
  /\ ~InFlight(r)
  /\ \A q \in Slots : q < r => InFlight(q)
  /\ started < MaxRequests

Begin(r, rq) == [q \in Slots |-> IF q = r THEN rq ELSE IF InFlight(q) THEN req[q] ELSE Idle]

\* the cookies a request may bear: none, those a login issued, or forged ones
ForgedJars ==
  IF usesDistributedSessionStore
    THEN { [sid |-> ForeignSid, tok |-> <<>>] }
    ELSE { [sid |-> NoSid, tok |-> <<24>>], [sid |-> NoSid, tok |-> <<30, 0>>] }

Jars == {NoCookies} \cup { i.jar : i \in issued } \cup ForgedJars

NewRequest(kind, jar) ==
  [Idle EXCEPT !.kind = kind, !.jar = jar, !.afterRevoke = (jar \in revoked)]

(***************************************************************************)
(* Cookie attributes: shouldUseSecureCookies, cookieSettings.  The         *)
(* x-forwarded-proto header is absent or a comma-separated list, held as   *)
(* the sequence split(",") gives; every caller passes the request.         *)
(***************************************************************************)
SESSION_COOKIE_NAME == "hubuum.sid"

SESSION_TOKEN_COOKIE_NAME == "hubuum.token"

SESSION_USERNAME_COOKIE_NAME == "hubuum.username"

CookieNames ==
  {SESSION_COOKIE_NAME, SESSION_TOKEN_COOKIE_NAME, SESSION_USERNAME_COOKIE_NAME}

NodeEnvs == {"development", "test", "production"}

\* elements of an x-forwarded-proto list as they arrive
ProtoValues == {"https", "http", " HTTPS ", ""}

\* String.prototype.trim() followed by toLowerCase(), on ProtoValues
TrimLower(v) == IF v = " HTTPS " THEN "https" ELSE v

ForwardedHeaders ==
  {Null} \cup { Some(<<v>>) : v \in ProtoValues }
    \cup { Some(<<"http", "https">>), Some(<<"https", "http">>), Some(<<"", "https">>) }

\* request.nextUrl.protocol
UrlProtocols == {"http:", "https:"}

\* protocol.replace(":", "").toLowerCase(), on UrlProtocols
StripColon(protocol) == IF protocol = "https:" THEN "https" ELSE "http"

\* a changed rule: the forwarded header is not looked at
SecureWhenUrlHttps(env, header, protocol) ==
  env = "production" /\ StripColon(protocol) = "https"

shouldUseSecureCookies(env, header, protocol) ==
  IF env # "production" THEN FALSE
  ELSE LET forwardedProto == IF header = Null THEN "" ELSE TrimLower(header[1][1])
           requestProto == StripColon(protocol)
           effectiveProto == IF forwardedProto # "" THEN forwardedProto
                             ELSE requestProto
       IN  effectiveProto = "https"

cookieSettings(env, header, protocol) ==
  [httpOnly |-> TRUE, secure |-> shouldUseSecureCookies(env, header, protocol),
   sameSite |-> "lax", path |-> "/", maxAge |-> SESSION_TTL_SECONDS]

(***************************************************************************)
(* response.cookies: for each cookie name, nothing or the value and        *)
(* attributes of the Set-Cookie header.  A session id is a one-symbol      *)
(* string here.                                                            *)
(***************************************************************************)
NoCookieTable == [n \in CookieNames |-> Null]

Cookie(value, settings) ==
  [value |-> value, httpOnly |-> settings.httpOnly, secure |-> settings.secure,
   sameSite |-> settings.sameSite, path |-> settings.path, maxAge |-> settings.maxAge]

\* { ...settings, maxAge: 0 }
Expiring(settings) == [settings EXCEPT !.maxAge = 0]

\* a changed clearSessionCookie: the token cookie is left alone
clearOnlySidCookies(table, settings) ==
  [table EXCEPT ![SESSION_COOKIE_NAME] = Some(Cookie(<<>>, Expiring(settings))),
                ![SESSION_USERNAME_COOKIE_NAME] = Some(Cookie(<<>>, Expiring(settings)))]

\* clearSessionCookie, on the cookie table
clearSessionCookies(table, settings) ==
  [n \in CookieNames |-> Some(Cookie(<<>>, Expiring(settings)))]

\* a changed setSessionCookie: the token cookie is written in either mode
setBothSessionCookies(table, sid, token, username, settings) ==
  [table EXCEPT ![SESSION_COOKIE_NAME] = Some(Cookie(sid, settings)),
                ![SESSION_TOKEN_COOKIE_NAME] =
                   Some(Cookie(encodeCookieValue(token), settings))]

\* setSessionCookie, on the cookie table
setSessionCookies(table, sid, token, username, settings) ==
  IF usesDistributedSessionStore
    THEN [table EXCEPT
            ![SESSION_COOKIE_NAME] = Some(Cookie(sid, settings)),
            ![SESSION_USERNAME_COOKIE_NAME] = Some(Cookie(<<>>, Expiring(settings)))]
  ELSE IF token # <<>>
    THEN [table EXCEPT
            ![SESSION_TOKEN_COOKIE_NAME] =
               Some(Cookie(encodeCookieValue(token), settings)),
            ![SESSION_USERNAME_COOKIE_NAME] =
               IF username # Null /\ username[1] # <<>>
                 THEN Some(Cookie(encodeCookieValue(username[1]), settings))
                 ELSE Some(Cookie(<<>>, Expiring(settings)))]
  ELSE table

(***************************************************************************)
(* getServerEnv: the environment is parsed on the first call and cached.   *)
(* Only the presence of VALKEY_URL is kept.                                *)
(***************************************************************************)
\* a changed getServerEnv: process.env is read on every call
ReadEnvEachTime(cache, url) == url

getServerEnv(cache, url) == IF cache # Null THEN cache[1] ELSE url

(***************************************************************************)
(* getSessionStore: the cached instance, or a new ValkeySessionStore when  *)
(* the environment holds a VALKEY_URL and a new InMemorySessionStore       *)
(* otherwise.                                                              *)
(***************************************************************************)
getSessionStore(inst, cache, url) ==
  IF inst # Null THEN inst[1]
  ELSE IF getServerEnv(cache, url) THEN "valkey" ELSE "memory"

(***************************************************************************)
(* InMemorySessionStore: a Map from session id to payload and expiresAt.   *)
(***************************************************************************)
\* held: the id and payload a caller keeps from its last successful get
NoLastOp == [op |-> "none", id |-> NoSid, result |-> Null, held |-> Null]

MemSet(m, sid, payload) ==
  [m EXCEPT ![sid] = Some([payload |-> payload, expiresAt |-> now + SESSION_TTL_SECONDS])]

MemCreate(m, sid, payload) == MemSet(m, sid, payload)

\* the map after get: an entry found expired is deleted
MemAfterGet(m, sid) ==
  IF m[sid] # Null /\ m[sid][1].expiresAt < now THEN [m EXCEPT ![sid] = Null] ELSE m

MemGet(m, sid) ==
  IF m[sid] = Null THEN Null
  ELSE IF m[sid][1].expiresAt < now THEN Null
  ELSE Some(m[sid][1].payload)

\* a changed touch: the payload is replaced, the expiry is kept
MemTouchKeepsExpiry(m, sid, payload) ==
  IF m[sid] = Null THEN MemSet(m, sid, payload)
  ELSE [m EXCEPT ![sid] = Some([payload |-> payload, expiresAt |-> m[sid][1].expiresAt])]

MemTouch(m, sid, payload) == MemSet(m, sid, payload)

\* a changed destroy: nothing is deleted
MemDestroyNothing(m, sid) == m

MemDestroy(m, sid) == [m EXCEPT ![sid] = Null]

(***************************************************************************)
(* correlation.ts: CORRELATION_ID_PATTERN = /^[A-Za-z0-9._:-]{8,128}$/,    *)
(* generateCorrelationId, normalizeCorrelationId.  A string is a sequence  *)
(* of code points.                                                         *)
(***************************************************************************)
CORRELATION_ID_MIN == 8

CORRELATION_ID_MAX == 128

\* A-Z a-z 0-9 . _ : -
PatternChars == (65..90) \cup (97..122) \cup (48..57) \cup {46, 95, 58, 45}

\* the white space and line terminators String.prototype.trim removes
WhiteSpace ==
  {9, 10, 11, 12, 13, 32, 160, 5760, 8232, 8233, 8239, 8287, 12288, 65279}
    \cup (8192..8202)

RECURSIVE TrimStart(_)
TrimStart(s) ==
  IF s # <<>> /\ Head(s) \in WhiteSpace THEN TrimStart(Tail(s)) ELSE s

RECURSIVE TrimEnd(_)
TrimEnd(s) ==
  IF s # <<>> /\ s[Len(s)] \in WhiteSpace
    THEN TrimEnd(SubSeq(s, 1, Len(s) - 1))
    ELSE s

Trim(s) == TrimEnd(TrimStart(s))

PatternTest(s) ==
  /\ Len(s) \in CORRELATION_ID_MIN..CORRELATION_ID_MAX
  /\ \A i \in 1..Len(s) : s[i] \in PatternChars

\* a changed normalizeCorrelationId: the pattern is not tested
normalizeWithoutPattern(value) ==
  IF value = Null \/ value[1] = <<>> THEN Null
  ELSE IF Trim(value[1]) = <<>> THEN Null
  ELSE Some(Trim(value[1]))

normalizeCorrelationId(value) ==
  IF value = Null \/ value[1] = <<>> THEN Null
  ELSE LET trimmed == Trim(value[1]) IN
       IF trimmed = <<>> THEN Null
       ELSE IF ~PatternTest(trimmed) THEN Null
       ELSE Some(trimmed)

\* n times the code point c
Repeat(c, n) == [i \in 1..n |-> c]

\* a UUID in its 8-4-4-4-12 form, every digit being d
UuidOf(d) ==
  Repeat(d, 8) \o <<45>> \o Repeat(d, 4) \o <<45>> \o Repeat(d, 4) \o <<45>>
    \o Repeat(d, 4) \o <<45>> \o Repeat(d, 12)

\* generateCorrelationId: the ids crypto.randomUUID() may return
generateCorrelationId == { UuidOf(48), UuidOf(102) }

\* "-"
Dash == <<45>>

\* proxy (middleware): the ids it may choose
proxyCorrelationId(header, cookie, nav) ==
  LET headerCorrelationId == normalizeCorrelationId(header)
      cookieCorrelationId == normalizeCorrelationId(cookie)
      existingCorrelationId ==
        IF headerCorrelationId # Null THEN headerCorrelationId
        ELSE cookieCorrelationId IN
  IF nav THEN generateCorrelationId
  ELSE IF existingCorrelationId # Null THEN {existingCorrelationId[1]}
  ELSE generateCorrelationId

\* proxyToBackend: normalizeCorrelationId(header) ?? generateCorrelationId()
proxyToBackendCorrelationId(header) ==
  IF normalizeCorrelationId(header) # Null
    THEN {normalizeCorrelationId(header)[1]}
    ELSE generateCorrelationId

\* the login, logout and session-status routes:
\* normalizeCorrelationId(header) ?? "-"
routeCorrelationId(header) ==
  IF normalizeCorrelationId(header) # Null
    THEN {normalizeCorrelationId(header)[1]}
    ELSE {Dash}

\* x-correlation-id values: absent, "", 8 letters, 3 letters, 7 letters,
\* 128 and 129 letters, a value with a space inside, 8 letters between
\* no-break spaces, no-break spaces only, a value with "!", and a value
\* with each kind of allowed character
CidHeaders ==
  { Null, Some(<<>>), Some(Repeat(97, 8)), Some(Repeat(97, 3)),
    Some(Repeat(97, 7)), Some(Repeat(97, CORRELATION_ID_MAX)),
    Some(Repeat(97, CORRELATION_ID_MAX + 1)),
    Some(Repeat(97, 4) \o <<32>> \o Repeat(97, 4)),
    Some(<<160>> \o Repeat(97, 8) \o <<160>>),
    Some(<<160, 160>>),
    Some(Repeat(97, 7) \o <<33>>),
    Some(<<65, 48, 46, 95, 58, 45, 122, 57>>) }

\* hubuum.cid values: absent, 8 letters, 3 letters
CidCookies == { Null, Some(Repeat(98, 8)), Some(Repeat(98, 3)) }

NoCorrelation == [who |-> "none", given |-> Null, id |-> <<>>]

\* request.method values and toUpperCase on them
CidMethods == {"GET", "get", "POST"}

ToUpperCase(method) == IF method = "get" THEN "GET" ELSE method

\* accept header values: absent, a browser navigation, the same in upper
\* case, JSON, anything
CidAccepts ==
  { Null, Some("text/html,application/xhtml+xml"), Some("TEXT/HTML"),
    Some("application/json"), Some("*/*") }

\* (accept ?? "").toLowerCase().includes("text/html"), on CidAccepts
AcceptsTextHtml(accept) ==
  LET lower == IF accept = Null THEN ""
               ELSE IF accept[1] = "TEXT/HTML" THEN "text/html"
               ELSE accept[1] IN
  lower \in {"text/html", "text/html,application/xhtml+xml"}

\* a changed test: every GET counts as a navigation
AnyGetIsNavigation(method, accept) == ToUpperCase(method) = "GET"

isHtmlNavigationRequest(method, accept) ==
  ToUpperCase(method) = "GET" /\ AcceptsTextHtml(accept)

\* requestIsHttps of the middleware
requestIsHttps(header, protocol) ==
  LET forwardedProto == IF header = Null THEN "" ELSE TrimLower(header[1][1])
      requestProto == StripColon(protocol)
      effectiveProto == IF forwardedProto # "" THEN forwardedProto
                        ELSE requestProto
  IN  effectiveProto = "https"

CORRELATION_COOKIE_MAX_AGE == 60 * 30

NoCidResponse ==
  [forwarded |-> Null, header |-> Null,
   cookie |-> Null]

\* NextResponse.next with the forwarded header, the response header and
\* the hubuum.cid cookie
CidResponse(id, header, protocol) ==
  [forwarded |-> Some(id), header |-> Some(id),
   cookie |-> Some([value |-> id, httpOnly |-> TRUE,
                    secure |-> requestIsHttps(header, protocol),
                    sameSite |-> "lax", path |-> "/",
                    maxAge |-> CORRELATION_COOKIE_MAX_AGE])]

\* no request is being given a correlation id
CorrIdle ==
  /\ cidHeader = Null
  /\ cidCookie = Null
  /\ cidNav = FALSE
  /\ cidOut = NoCorrelation
  /\ cidMethod = "POST"
  /\ cidAccept = Null
  /\ cidResp = NoCidResponse

(***************************************************************************)
(* proxyToBackend with the data it moves.  Bodies are byte sequences;      *)
(* request.text() and Response.text() decode them as UTF-8 and fetch and   *)
(* NextResponse encode the resulting string as UTF-8.                      *)
(***************************************************************************)
NoProxied ==
  [pc |-> "off", method |-> "", parts |-> <<>>, slash |-> FALSE, search |-> "",
   ctype |-> Null, accept |-> Null, body |-> <<>>, cidGiven |-> Null,
   cid |-> <<>>, session |-> Null, sent |-> Null, up |-> Null, resp |-> Null,
   destroyCall |-> Null]

\* no request is being followed through proxyToBackend
PxIdle == px = NoProxied

(***************************************************************************)
(* env.ts: serverEnvSchema and getServerEnv with validation.  A variable   *)
(* of process.env is absent (Null) or a string.                            *)
(***************************************************************************)
\* the strings z.string().url() accepts, among those used here
IsUrl(str) == str \in {"http://hubuum:8080", "redis://valkey:6379"}

\* the strings z.coerce.number().int().positive() accepts, among those used
IsPositiveInt(str) == str \in {"60"}

NodeEnvValues == { Null, Some("production"), Some("staging") }

BackendBaseUrls == { Null, Some("http://hubuum:8080"), Some("hubuum") }

ValkeyUrls == { Null, Some(""), Some("redis://valkey:6379"), Some("valkey") }

SessionTtls == { Null, Some("60"), Some("0"), Some("abc") }

SessionPrefixes == { Null, Some("") }

ProcessEnvs ==
  [NODE_ENV : NodeEnvValues, BACKEND_BASE_URL : BackendBaseUrls,
   VALKEY_URL : ValkeyUrls, SESSION_TTL_SECONDS : SessionTtls,
   SESSION_PREFIX : SessionPrefixes]

\* serverEnvSchema.safeParse(process.env).success
serverEnvSchema(env) ==
  /\ env.NODE_ENV = Null \/ env.NODE_ENV[1] \in NodeEnvs
  /\ env.BACKEND_BASE_URL # Null /\ IsUrl(env.BACKEND_BASE_URL[1])
  /\ env.VALKEY_URL = Null \/ env.VALKEY_URL[1] = "" \/ IsUrl(env.VALKEY_URL[1])
  /\ env.SESSION_TTL_SECONDS = Null \/ IsPositiveInt(env.SESSION_TTL_SECONDS[1])
  /\ env.SESSION_PREFIX = Null \/ env.SESSION_PREFIX[1] # ""

\* a valid environment, as the other specifications assume it
ValidEnv ==
  [NODE_ENV |-> Some("production"), BACKEND_BASE_URL |-> Some("http://hubuum:8080"),
   VALKEY_URL |-> Null, SESSION_TTL_SECONDS |-> Null, SESSION_PREFIX |-> Null]

\* a changed getServerEnv: a failed validation is cached with the defaults
getServerEnvCachingFailure(cache, env) ==
  IF cache # Null THEN [threw |-> FALSE, cache |-> cache]
  ELSE [threw |-> FALSE,
        cache |-> Some(serverEnvSchema(env) /\ env.VALKEY_URL # Null
                         /\ env.VALKEY_URL[1] # "")]

\* getServerEnv with its validation: whether it throws, and cachedEnv after
\* the call (of which the presence of VALKEY_URL is kept)
getServerEnvValidated(cache, env) ==
  IF cache # Null THEN [threw |-> FALSE, cache |-> cache]
  ELSE IF ~serverEnvSchema(env) THEN [threw |-> TRUE, cache |-> Null]
  ELSE [threw |-> FALSE,
        cache |-> Some(env.VALKEY_URL # Null /\ env.VALKEY_URL[1] # "")]

NoRun == [kind |-> "none", executed |-> <<>>, outcome |-> "none"]

\* no handler being followed for its configuration reads
CfgIdle == cfg = [env |-> ValidEnv, run |-> NoRun]

NoPage ==
  [route |-> "none", sessions |-> <<>>, groups |-> <<>>, executed |-> <<>>,
   outcome |-> "none", location |-> ""]

\* no page is being rendered
PgIdle == pg = NoPage

\* no cookie is being written
CookieIdle ==
  /\ nodeEnv = "production"
  /\ xfProto = Null
  /\ urlProto = "https:"
  /\ respCookies = NoCookieTable

\* the environment has been read; the store interface is not called directly
StoreIdle ==
  /\ valkeyUrl = usesDistributedSessionStore
  /\ cachedEnv = Some(valkeyUrl)
  /\ storeInst = Null
  /\ memMap = [k \in StoreKeys |-> Null]
  /\ lastOp = NoLastOp

\* the components at rest, while the route handlers run
CompIdle == CookieIdle /\ StoreIdle /\ CorrIdle /\ PxIdle /\ CfgIdle /\ PgIdle

(***************************************************************************)
(* The process starts with an empty or a populated world: the Valkey store *)
(* outlives the process and is shared with other instances, and a browser  *)
(* may still hold the cookies of an earlier login.  EarlierJar and         *)
(* EarlierStore are what such a login left: its cookies and, in            *)
(* distributed mode, its                                                   *)
(* record under session id 1, created at time 0.  issued holds the cookies *)
(* every successful login set and the token the upstream returned to it    *)
(* (here: the login is one of this behaviour).  foreign is what the key of *)
(* ForeignSid holds: nothing, or a value this program did not write.       *)
(***************************************************************************)
\* the token of the earlier login: "ab"
EarlierToken == <<97, 98>>

EarlierJar(m, token) ==
  IF m = "distributed" THEN [sid |-> 1, tok |-> <<>>]
  ELSE [sid |-> NoSid, tok |-> encodeCookieValue(token)]

EarlierStore(m, token) ==
  [k \in StoreKeys |->
     IF m = "distributed" /\ k = 1
       THEN Some([raw |-> JSONStringify([token |-> token, username |-> Null,
                                        createdAt |-> 0, lastSeen |-> 0]),
                  exp |-> SESSION_TTL_SECONDS])
       ELSE Null]

InitWith(foreign) ==
  /\ mode \in {"distributed", "standalone"}
  /\ CompIdle
  /\ now = 0
  /\ req = [r \in Slots |-> Idle]
  /\ started = 0
  /\ destroyed = {}
  /\ revoked = {}
  /\ \/ /\ store = [EarlierStore("none", <<>>) EXCEPT ![ForeignSid] = foreign]
        /\ issued = {}
        /\ nextSid = 1
     \/ /\ store = [EarlierStore(mode, EarlierToken) EXCEPT ![ForeignSid] = foreign]
        /\ issued = {[jar |-> EarlierJar(mode, EarlierToken), token |-> EarlierToken,
                      here |-> FALSE]}
        /\ nextSid = 2

Init == InitWith(Null)

\* the store holds, under a key no login issued, a text that is not JSON
InitForeign ==
  InitWith(IF mode = "distributed"
             THEN Some([raw |-> NotJson, exp |-> SESSION_TTL_SECONDS]) ELSE Null)

(***************************************************************************)
(* getSessionFromRequest, standalone branch: the token cookie, decoded.    *)
(***************************************************************************)
StandaloneSession(jar) ==
  IF jar.tok = <<>> THEN Null
  ELSE LET token == decodeCookieValue(jar.tok) IN
       IF token = <<>> THEN Null
       ELSE Some([sid |-> CookieTokenSid, token |-> token, username |-> Null,
                  createdAt |-> 0, lastSeen |-> now])

\* a changed answer of the proxy to a request without a session
ForbiddenResponse == Json(403)

\* the proxy's answer to a request without a session
UnauthorizedResponse == Json(401)

(***************************************************************************)
(* What each handler does once getSessionFromRequest has returned.         *)
(***************************************************************************)
AfterResolve(rq, session) ==
  LET r1 == [rq EXCEPT !.sess = session, !.resolved = TRUE] IN
  IF rq.kind = "proxy" THEN
    IF session = Null THEN Done(r1, UnauthorizedResponse) ELSE [r1 EXCEPT !.pc = "fetch"]
  ELSE IF rq.kind = "logout" THEN
    IF session = Null THEN Done(r1, clearSessionCookie(Json(200)))
    ELSE [r1 EXCEPT !.pc = "logoutUp"]
  ELSE
    IF session = Null THEN Done(r1, Json(401)) ELSE Done(r1, Json(200))

(***************************************************************************)
(* getSessionFromRequest up to its first await: in distributed mode a      *)
(* request without the session-id cookie has no session, any other goes to *)
(* the store (hydrateSession); in standalone mode the cookie decides.      *)
(***************************************************************************)
BeginResolve(rq) ==
  IF usesDistributedSessionStore
    THEN IF rq.jar.sid = NoSid THEN AfterResolve(rq, Null) ELSE [rq EXCEPT !.pc = "get"]
    ELSE AfterResolve(rq, StandaloneSession(rq.jar))

(***************************************************************************)
(* Catch-all proxy: ALLOWED_METHODS, toUpstreamPath, proxyToBackend.       *)
(***************************************************************************)
ALLOWED_METHODS == {"GET", "POST", "PATCH", "PUT", "DELETE"}

\* methods of the requests: one the proxy forwards, one it does not
Methods == {"DELETE", "HEAD"}

\* request paths below the catch-all route: segments, and whether the path
\* ends with "/" ("/", "/api", "/api/", "/classes")
Paths ==
  { [parts |-> <<>>, slash |-> FALSE], [parts |-> <<"api">>, slash |-> FALSE],
    [parts |-> <<"api">>, slash |-> TRUE], [parts |-> <<"classes">>, slash |-> FALSE] }

toUpstreamPath(pathParts, preserveTrailingSlash) ==
  IF Len(pathParts) = 0 THEN Null
  ELSE IF ~(pathParts[1] = "api" /\ (Len(pathParts) >= 2 \/ preserveTrailingSlash))
    THEN Null
    ELSE Some(pathParts)

\* a changed method check: HEAD is let through
MethodAllowedOrHead(method) == method \in ALLOWED_METHODS \cup {"HEAD"}

MethodAllowed(method) == method \in ALLOWED_METHODS

\* a changed status test: every client error invalidates the session
IsClientError(status) == status >= 400 /\ status < 500

\* the upstream status on which the proxy invalidates the session
IsUnauthorized(status) == status = 401

\* a changed entry: the session is resolved before the request is looked at
ProxyEntryResolvesFirst(rq) == BeginResolve(rq)

ProxyEntry(rq) ==
  IF ~MethodAllowed(rq.method) THEN Done(rq, Json(405))
  ELSE IF toUpstreamPath(rq.path, rq.slash) = Null THEN Done(rq, Json(400))
  ELSE BeginResolve(rq)

ProxyStart(r) ==
  /\ Free(r)
  /\ \E method \in Methods, path \in Paths, jar \in Jars :
       req' = Begin(r, ProxyEntry([NewRequest("proxy", jar) EXCEPT
                                     !.method = method, !.path = path.parts,
                                     !.slash = path.slash]))
  /\ started' = started + 1
  /\ UNCHANGED <<mode, store, now, nextSid, issued, destroyed, revoked>>
  /\ UNCHANGED compVars

(***************************************************************************)
(* hydrateSession: store.get, then store.touch of the payload with a new   *)
(* lastSeen.  Two steps: other requests may run between them.              *)
(***************************************************************************)
\* const touched = { ...payload, lastSeen: Date.now() }
\* a changed touch payload: createdAt is renewed too
TouchedAsCreated(payload) == [payload EXCEPT !.lastSeen = now, !.createdAt = now]

Touched(payload) == [payload EXCEPT !.lastSeen = now]

HydrateGet(r) ==
  /\ Quiet
  /\ req[r].pc = "get"
  /\ LET payload == StoreGet(store, req[r].jar.sid) IN
       req' = Begin(r,
                 IF payload = Null THEN AfterResolve(req[r], Null)
                 ELSE [req[r] EXCEPT !.pc = "touch",
                         !.sess = Some(ActiveSession(req[r].jar.sid,
                                                     Touched(payload[1])))])
  /\ UNCHANGED <<mode, store, now, nextSid, started, issued, destroyed, revoked>>
  /\ UNCHANGED compVars

HydrateTouch(r) ==
  /\ Quiet
  /\ req[r].pc = "touch"
  /\ store' = StoreTouch(store, req[r].jar.sid, PayloadOf(req[r].sess[1]))
  /\ req' = Begin(r, AfterResolve(req[r], req[r].sess))
  /\ UNCHANGED <<mode, now, nextSid, started, issued, destroyed, revoked>>
  /\ UNCHANGED compVars

(***************************************************************************)
(* The distributed store is unreachable during a session operation: the    *)
(* command rejects.  Neither hydrateSession, createSession, destroySession *)
(* nor any handler catches it: the handler throws.                         *)
(***************************************************************************)
\* a changed handling: a rejected get is taken for "no session"
StoreErrorAsNoSession(rq) ==
  IF rq.pc \in {"get", "touch"} THEN AfterResolve(rq, Null) ELSE Done(rq, Raised)

OnStoreError(rq) == Done(rq, Raised)

StoreUnavailable(r) ==
  /\ Quiet
  /\ req[r].pc \in {"get", "touch", "create", "destroy"}
  /\ req' = Begin(r, [OnStoreError(req[r]) EXCEPT !.storeFailed = TRUE])
  /\ UNCHANGED <<mode, store, now, nextSid, started, issued, destroyed, revoked>>
  /\ UNCHANGED compVars

(***************************************************************************)
(* proxyToBackend from the upstream fetch on.                              *)
(***************************************************************************)
UpstreamStatuses == {200, 401, 403}

ProxyRelay(rq, status) ==
  LET r1 == [rq EXCEPT !.up = status, !.calls = rq.calls + 1] IN
  IF IsUnauthorized(status)
    THEN IF usesDistributedSessionStore
           THEN [r1 EXCEPT !.pc = "destroy", !.resp = Relay(status)]
           ELSE Done(r1, clearSessionCookie(Relay(status)))
    ELSE Done(r1, Relay(status))

ProxyFetch(r) ==
  /\ req[r].kind = "proxy" /\ req[r].pc = "fetch"
  /\ \E status \in UpstreamStatuses :
       /\ req' = Begin(r, ProxyRelay(req[r], status))
       /\ revoked' = IF req'[r].pc = "done" /\ status = 401
                       THEN revoked \cup {req[r].jar} ELSE revoked
  /\ UNCHANGED <<mode, store, now, nextSid, started, issued, destroyed>>
  /\ UNCHANGED compVars

\* a changed catch: the fetch is attempted a second time before giving up
FetchErrorRetried(rq) ==
  Done([rq EXCEPT !.up = -1, !.calls = rq.calls + 2], Json(502))

\* the catch around the upstream fetch: one attempt, then 502
OnFetchError(rq) ==
  Done([rq EXCEPT !.up = -1, !.calls = rq.calls + 1], Json(502))

ProxyFetchFails(r) ==
  /\ req[r].kind = "proxy" /\ req[r].pc = "fetch"
  /\ req' = Begin(r, OnFetchError(req[r]))
  /\ UNCHANGED <<mode, store, now, nextSid, started, issued, destroyed, revoked>>
  /\ UNCHANGED compVars

(***************************************************************************)
(* destroySession in distributed mode (store.destroy), followed in the     *)
(* same handler by clearSessionCookie and the return of the response.      *)
(***************************************************************************)
DestroySession(r) ==
  /\ Quiet
  /\ req[r].pc = "destroy"
  /\ store' = StoreDestroy(store, req[r].sess[1].sid)
  /\ destroyed' = destroyed \cup {req[r].sess[1].sid}
  /\ req' = Begin(r, Done(req[r], clearSessionCookie(req[r].resp)))
  /\ revoked' = IF req[r].kind = "proxy" THEN revoked \cup {req[r].jar} ELSE revoked
  /\ UNCHANGED <<mode, now, nextSid, started, issued>>
  /\ UNCHANGED compVars

(***************************************************************************)
(* POST /api/auth/login: parseCredentials.  body is "valid" (both fields   *)
(* non-empty), "empty_field" (a field missing or empty: loginSchema.parse  *)
(* throws) or "malformed" (request.json() / request.formData() throws).    *)
(***************************************************************************)
ContentTypes ==
  {"application/json", "application/x-www-form-urlencoded", "multipart/form-data",
   "text/plain"}

FormTypes == {"application/x-www-form-urlencoded", "multipart/form-data"}

Bodies == {"valid", "empty_field", "malformed"}

parseCredentials(ctype, body) ==
  IF ctype = "application/json" /\ body = "valid"
    THEN [credentials |-> TRUE, fromForm |-> FALSE]
  ELSE IF ctype \in FormTypes /\ body = "valid"
    THEN [credentials |-> TRUE, fromForm |-> TRUE]
  ELSE [credentials |-> FALSE, fromForm |-> FALSE]

\* a changed entry: the payload is sent upstream whether it parsed or not
LoginEntryUnchecked(rq) ==
  [rq EXCEPT !.fromForm = parseCredentials(rq.ctype, rq.body).fromForm, !.pc = "loginUp"]

LoginEntry(rq) ==
  LET parsed == parseCredentials(rq.ctype, rq.body)
      r1 == [rq EXCEPT !.fromForm = parsed.fromForm] IN
  IF ~parsed.credentials
    THEN IF parsed.fromForm
           THEN Done(r1, seeOther("/login?error=invalid_credentials"))
           ELSE Done(r1, Json(400))
    ELSE [r1 EXCEPT !.pc = "loginUp"]

LoginStart(r) ==
  /\ Free(r)
  /\ \E ctype \in ContentTypes, body \in Bodies :
       req' = Begin(r,
                 LoginEntry([NewRequest("login", NoCookies) EXCEPT !.method = "POST", !.ctype = ctype, !.body = body]))
  /\ started' = started + 1
  /\ UNCHANGED <<mode, store, now, nextSid, issued, destroyed, revoked>>
  /\ UNCHANGED compVars

LoginResponse(rq) ==
  IF rq.fromForm THEN seeOther("/app") ELSE Json(200)

\* the upstream login call throws: backendFetchRaw rethrows, nothing catches
LoginUpstreamFails(r) ==
  /\ req[r].pc = "loginUp"
  /\ req' = Begin(r,
               Done([req[r] EXCEPT !.up = -1, !.calls = req[r].calls + 1], Raised))
  /\ UNCHANGED <<mode, store, now, nextSid, started, issued, destroyed, revoked>>
  /\ UNCHANGED compVars

\* the upstream login answers with a status that is not ok
LoginRejected(r) ==
  /\ req[r].pc = "loginUp"
  /\ \E status \in {401, 500} :
       req' = Begin(r,
                 Done([req[r] EXCEPT !.up = status, !.calls = req[r].calls + 1],
                      IF req[r].fromForm
                        THEN seeOther("/login?error=invalid_credentials")
                        ELSE Json(status)))
  /\ UNCHANGED <<mode, store, now, nextSid, started, issued, destroyed, revoked>>
  /\ UNCHANGED compVars

\* the upstream login answers ok without a usable token
LoginNoToken(r) ==
  /\ req[r].pc = "loginUp"
  /\ req' = Begin(r,
               Done([req[r] EXCEPT !.up = 200, !.calls = req[r].calls + 1], Json(502)))
  /\ UNCHANGED <<mode, store, now, nextSid, started, issued, destroyed, revoked>>
  /\ UNCHANGED compVars

(***************************************************************************)
(* The upstream login answers ok with a token: createSession, then         *)
(* setSessionCookie.  In standalone mode createSession touches no store.   *)
(***************************************************************************)
LoginAccepted(r) ==
  /\ req[r].pc = "loginUp"
  /\ \E token \in Tokens :
       LET r1 == [req[r] EXCEPT !.up = 200, !.calls = req[r].calls + 1, !.token = token] IN
       IF usesDistributedSessionStore
         THEN /\ nextSid <= MaxSid
              /\ req' = Begin(r,
                           [r1 EXCEPT !.pc = "create", !.newSid = nextSid,
                              !.sess = Some(ActiveSession(nextSid,
                                         [token |-> token, username |-> Null,
                                          createdAt |-> now, lastSeen |-> now]))])
              /\ nextSid' = nextSid + 1
              /\ UNCHANGED issued
         ELSE LET response == setSessionCookie(LoginResponse(r1), CookieUuidSid, token) IN
              /\ req' = Begin(r, Done([r1 EXCEPT !.newSid = CookieUuidSid], response))
              /\ issued' = issued \cup {[jar |-> response.set, token |-> token, here |-> TRUE]}
              /\ UNCHANGED nextSid
  /\ UNCHANGED <<mode, store, now, started, destroyed, revoked>>
  /\ UNCHANGED compVars

LoginCreate(r) ==
  /\ Quiet
  /\ req[r].pc = "create"
  /\ store' = StoreCreate(store, req[r].newSid, PayloadOf(req[r].sess[1]))
  /\ LET response == setSessionCookie(LoginResponse(req[r]), req[r].newSid, req[r].token) IN
       /\ req' = Begin(r, Done(req[r], response))
       /\ issued' = issued \cup {[jar |-> response.set, token |-> req[r].token, here |-> TRUE]}
  /\ UNCHANGED <<mode, now, nextSid, started, destroyed, revoked>>
  /\ UNCHANGED compVars

(***************************************************************************)
(* GET|POST /api/auth/logout: both handlers are performLogout, which reads *)
(* the method only to log it.                                              *)
(***************************************************************************)
LogoutStart(r) ==
  /\ Free(r)
  /\ \E jar \in Jars :
       req' = Begin(r, BeginResolve(NewRequest("logout", jar)))
  /\ started' = started + 1
  /\ UNCHANGED <<mode, store, now, nextSid, issued, destroyed, revoked>>
  /\ UNCHANGED compVars

\* outcomes of the best-effort upstream logout: a status, or -1 for a throw
LogoutOutcomes == {200, 500, -1}

\* a changed logout: a throwing upstream call is not caught
LogoutUncaught(rq, outcome) ==
  LET r1 == [rq EXCEPT !.up = outcome, !.calls = rq.calls + 1] IN
  IF outcome = -1 THEN Done(r1, Raised)
  ELSE IF usesDistributedSessionStore
    THEN [r1 EXCEPT !.pc = "destroy", !.resp = Json(200)]
    ELSE Done(r1, clearSessionCookie(Json(200)))

LogoutAfterUpstream(rq, outcome) ==
  LET r1 == [rq EXCEPT !.up = outcome, !.calls = rq.calls + 1] IN
  IF usesDistributedSessionStore
    THEN [r1 EXCEPT !.pc = "destroy", !.resp = Json(200)]
    ELSE Done(r1, clearSessionCookie(Json(200)))

LogoutUpstream(r) ==
  /\ req[r].pc = "logoutUp"
  /\ \E outcome \in LogoutOutcomes :
       req' = Begin(r, LogoutAfterUpstream(req[r], outcome))
  /\ UNCHANGED <<mode, store, now, nextSid, started, issued, destroyed, revoked>>
  /\ UNCHANGED compVars

(***************************************************************************)
(* GET /api/auth/session: getSessionFromRequest and nothing else.          *)
(***************************************************************************)
StatusStart(r) ==
  /\ Free(r)
  /\ \E jar \in Jars :
       req' = Begin(r,
                 BeginResolve([NewRequest("status", jar) EXCEPT !.method = "GET"]))
  /\ started' = started + 1
  /\ UNCHANGED <<mode, store, now, nextSid, issued, destroyed, revoked>>
  /\ UNCHANGED compVars

(***************************************************************************)
(* Time passes.                                                            *)
(***************************************************************************)
Tick ==
  /\ Quiet
  /\ now < MaxTime
  /\ now' = now + 1
  /\ UNCHANGED <<mode, store, nextSid, req, started, issued, destroyed, revoked>>
  /\ UNCHANGED compVars

Next ==
  \/ \E r \in Slots : ProxyStart(r)
  \/ \E r \in Slots : LoginStart(r)
  \/ \E r \in Slots : LogoutStart(r)
  \/ \E r \in Slots : StatusStart(r)
  \/ \E r \in Slots : HydrateGet(r)
  \/ \E r \in Slots : HydrateTouch(r)
  \/ \E r \in Slots : StoreUnavailable(r)
  \/ \E r \in Slots : ProxyFetch(r)
  \/ \E r \in Slots : ProxyFetchFails(r)
  \/ \E r \in Slots : DestroySession(r)
  \/ \E r \in Slots : LoginUpstreamFails(r)
  \/ \E r \in Slots : LoginRejected(r)
  \/ \E r \in Slots : LoginNoToken(r)
  \/ \E r \in Slots : LoginAccepted(r)
  \/ \E r \in Slots : LoginCreate(r)
  \/ \E r \in Slots : LogoutUpstream(r)
  \/ Tick

Spec == Init /\ [][Next]_vars

SpecForeign == InitForeign /\ [][Next]_vars

(***************************************************************************)
(* Cookie writing on its own: a request arrives (environment, forwarded    *)
(* header, URL protocol), and setSessionCookie or clearSessionCookie       *)
(* writes the cookies of its response.                                     *)
(***************************************************************************)
\* the session boundary before any request
SessionIdle ==
  /\ store = [k \in StoreKeys |-> Null]
  /\ now = 0
  /\ nextSid = 1
  /\ req = [r \in Slots |-> Idle]
  /\ started = 0
  /\ issued = {}
  /\ destroyed = {}
  /\ revoked = {}

SidStrings == { <<1>>, <<2>> }

Usernames == { Null, Some(<<>>), Some(<<117>>) }

InitCookies ==
  /\ SessionIdle
  /\ mode \in {"distributed", "standalone"}
  /\ StoreIdle
  /\ CorrIdle
  /\ PxIdle
  /\ CfgIdle
  /\ PgIdle
  /\ nodeEnv \in NodeEnvs
  /\ xfProto \in ForwardedHeaders
  /\ urlProto \in UrlProtocols
  /\ respCookies = NoCookieTable

CookieSet ==
  /\ \E sid \in SidStrings, token \in Tokens \cup {<<>>}, username \in Usernames :
       respCookies' = setSessionCookies(NoCookieTable, sid, token, username,
                                        cookieSettings(nodeEnv, xfProto, urlProto))
  /\ UNCHANGED <<sessionVars, nodeEnv, xfProto, urlProto, storeVars, corrVars, pxVars, cfgVars,
                 pgVars>>

CookieClear ==
  /\ respCookies' = clearSessionCookies(NoCookieTable,
                                        cookieSettings(nodeEnv, xfProto, urlProto))
  /\ UNCHANGED <<sessionVars, nodeEnv, xfProto, urlProto, storeVars, corrVars, pxVars, cfgVars,
                 pgVars>>

NextCookies == CookieSet \/ CookieClear

SpecCookies == InitCookies /\ [][NextCookies]_vars

(***************************************************************************)
(*                              Properties                                 *)
(***************************************************************************)
IssuedJars == { i.jar : i \in issued }

\* the record the store holds for sid, read off the key space directly
LiveRecord(s, sid) == s[sid] # Null /\ s[sid][1].exp > now /\ s[sid][1].raw.json

\* the request has no valid session: it bears no session cookie, or
\* getSessionFromRequest returned null for it
LacksSession(rq) == rq.jar = NoCookies \/ (rq.resolved /\ rq.sess = Null)

\* the joined path segments, with the trailing slash kept, begin with "api/"
PathConstructible(path, slash) ==
  Len(path) > 0 /\ path[1] = "api" /\ (Len(path) > 1 \/ slash)

\* one step of request r, as C1 requires it
C1_Step(r) ==
  /\ (req[r].kind = "proxy" /\ req[r].pc = "fetch" /\ req'[r].up = 401)
       => IF usesDistributedSessionStore
            THEN req'[r].pc = "destroy" /\ store' = store
            ELSE /\ req'[r].pc = "done"
                 /\ req'[r].resp.status = 401
                 /\ req'[r].resp.cleared
  /\ (req[r].kind = "proxy" /\ req[r].pc = "destroy" /\ req'[r].pc = "done"
        /\ ~req'[r].storeFailed)
       => /\ req[r].sess[1].sid = req[r].jar.sid
          /\ store'[req[r].jar.sid] = Null
          /\ req'[r].resp.status = 401
          /\ req'[r].resp.cleared
  /\ (req[r].kind = "proxy" /\ req[r].pc = "fetch" /\ req'[r].pc # "fetch"
        /\ req'[r].up \notin {401, -1})
       => /\ req'[r].pc = "done"
          /\ ~req'[r].resp.cleared
          /\ req'[r].resp.set = NoCookies
          /\ store' = store

(***************************************************************************)
(* C1: when the upstream answers a proxied request 401, the proxy destroys *)
(* the session of the resolved id (in distributed mode the store holds no  *)
(* record for it once destroySession has returned), expires the session    *)
(* cookies on the response and relays status 401; for any other upstream   *)
(* status no session cookie is changed and the store is left as it was.    *)
(***************************************************************************)
C1_Upstream401DestroysSession == [][\A r \in Slots : C1_Step(r)]_vars

C1_Witness ==
  \E r \in Slots :
    /\ usesDistributedSessionStore
    /\ req[r].kind = "proxy" /\ req[r].pc = "done" /\ req[r].up = 401
    /\ req[r].resp.status = 401 /\ req[r].resp.cleared
    /\ req[r].jar.sid \in destroyed
    /\ store[req[r].jar.sid] = Null

(***************************************************************************)
(* C2: after a proxied request bearing the cookies of a login was answered *)
(* 401 by the upstream, a later resolveSession presented with the same     *)
(* cookies returns none, in either mode.                                   *)
(***************************************************************************)
C2_ResolveAfter401ReturnsNone ==
  \A r \in Slots :
    (req[r].afterRevoke /\ req[r].resolved /\ req[r].jar \in IssuedJars)
      => req[r].sess = Null

(***************************************************************************)
(* C3: in distributed mode, once destroySession(id) has completed the      *)
(* store holds no record for id and every later resolveSession(id) returns *)
(* none, under every interleaving of the requests on that id.              *)
(***************************************************************************)
C3_DestroyedStaysDestroyed ==
  usesDistributedSessionStore =>
    /\ \A sid \in destroyed : ~LiveRecord(store, sid)
    /\ \A r \in Slots :
         (req[r].resolved /\ req[r].afterRevoke) => req[r].sess = Null

(***************************************************************************)
(* C4, as stated: every request to the catch-all proxy that lacks a valid  *)
(* session is answered 401 and no upstream call is made.                   *)
(***************************************************************************)
C4_NoSessionAlways401 ==
  \A r \in Slots :
    (req[r].kind = "proxy" /\ req[r].pc = "done" /\ ~req[r].storeFailed
       /\ LacksSession(req[r]))
      => req[r].resp.status = 401 /\ req[r].calls = 0

(***************************************************************************)
(* C4, amended: a request to the catch-all proxy that lacks a valid        *)
(* session causes no upstream call and is answered 405 when its method is  *)
(* unsupported, else 400 when its upstream path cannot be constructed,     *)
(* else 401.                                                               *)
(***************************************************************************)
C4_NoSessionNoUpstreamCall ==
  \A r \in Slots :
    (req[r].kind = "proxy" /\ req[r].pc = "done" /\ ~req[r].storeFailed
       /\ LacksSession(req[r]))
      => /\ req[r].calls = 0
         /\ req[r].resp.status =
              IF req[r].method \notin {"GET", "POST", "PATCH", "PUT", "DELETE"} THEN 405
              ELSE IF ~PathConstructible(req[r].path, req[r].slash) THEN 400
              ELSE 401

C4_Witness ==
  \E r \in Slots :
    /\ req[r].kind = "proxy" /\ req[r].pc = "done"
    /\ req[r].method = "DELETE" /\ req[r].path = <<"api">> /\ req[r].slash
    /\ req[r].jar.sid = ForeignSid /\ req[r].resolved /\ req[r].sess = Null
    /\ req[r].resp.status = 401 /\ req[r].calls = 0

(***************************************************************************)
(* C5: a request to the catch-all proxy whose method is outside            *)
(* {GET, POST, PATCH, PUT, DELETE} is answered 405 at once: no upstream    *)
(* call, no session resolution, whatever the path and the cookies.         *)
(***************************************************************************)
C5_UnsupportedMethod405 ==
  \A r \in Slots :
    (req[r].kind = "proxy"
       /\ req[r].method \notin {"GET", "POST", "PATCH", "PUT", "DELETE"})
      => /\ req[r].pc = "done"
         /\ req[r].resp.status = 405
         /\ req[r].calls = 0
         /\ ~req[r].resolved
         /\ ~req[r].resp.cleared

C5_Witness ==
  \E r \in Slots :
    /\ req[r].kind = "proxy" /\ req[r].method = "HEAD"
    /\ req[r].path = <<"api">> /\ req[r].slash
    /\ req[r].jar \in IssuedJars
    /\ (usesDistributedSessionStore => LiveRecord(store, req[r].jar.sid))
    /\ req[r].resp.status = 405

(***************************************************************************)
(* C6: login round trip.  For the cookies a successful login set,          *)
(* resolveSession returns a session whose token is the token the upstream  *)
(* login returned: always in standalone mode, and in distributed mode      *)
(* unless the store no longer holds the record (expired or destroyed).     *)
(***************************************************************************)
C6_LoginRoundTrip ==
  \A r \in Slots : \A i \in issued :
    (req[r].resolved /\ req[r].jar = i.jar)
      => /\ req[r].sess # Null => req[r].sess[1].token = i.token
         /\ req[r].sess = Null =>
              usesDistributedSessionStore /\ ~LiveRecord(store, i.jar.sid)

C6_Witness ==
  \E r \in Slots : \E i \in issued :
    /\ i.here
    /\ req[r].resolved /\ req[r].jar = i.jar
    /\ req[r].sess # Null /\ req[r].sess[1].token = i.token
    /\ i.token = <<233, 98>>

\* one step of request r, as C7 requires it
C7_Step(r) ==
  (req'[r].storeFailed /\ ~req[r].storeFailed)
    => /\ req'[r].pc = "done"
       /\ req'[r].resp.kind = "raised"
       /\ req'[r].resp.status # 401
       /\ ~req'[r].resp.cleared
       /\ req'[r].resp.set = NoCookies
       /\ ~(req'[r].resolved /\ req'[r].sess = Null)
       /\ store' = store
       /\ destroyed' = destroyed

(***************************************************************************)
(* C7: a store command rejected because the distributed store is           *)
(* unavailable makes the handler throw: the request is not taken for one   *)
(* without a session, it is not answered 401, no record is destroyed and   *)
(* no session cookie is expired or set.                                    *)
(***************************************************************************)
C7_StoreErrorIsRaised == [][\A r \in Slots : C7_Step(r)]_vars

C7_Witness ==
  \E r \in Slots :
    /\ req[r].storeFailed /\ req[r].kind = "proxy"
    /\ req[r].jar \in IssuedJars
    /\ LiveRecord(store, req[r].jar.sid)
    /\ req[r].resp.kind = "raised"

\* one step of request r, as C8 requires it
C8_Step(r) ==
  (req[r].pc = "get" /\ req'[r].pc # "get" /\ ~req'[r].storeFailed
     /\ ~LiveRecord(store, req[r].jar.sid))
    => /\ req'[r].resolved
       /\ req'[r].sess = Null
       /\ req'[r].resp.kind # "raised"
       /\ store' = store

C9_LogoutAlwaysClears ==
  \A r \in Slots :
    (req[r].kind = "logout" /\ req[r].pc = "done" /\ ~req[r].storeFailed)
      => /\ req[r].resp.status = 200
         /\ req[r].resp.cleared
         /\ (req[r].sess # Null /\ usesDistributedSessionStore)
              => store[req[r].sess[1].sid] = Null /\ req[r].calls = 1

C9_Witness ==
  \E r \in Slots :
    /\ usesDistributedSessionStore
    /\ req[r].kind = "logout" /\ req[r].pc = "done"
    /\ req[r].sess # Null /\ req[r].up = -1
    /\ req[r].resp.cleared /\ store[req[r].sess[1].sid] = Null

(***************************************************************************)
(* C10: a login submitted as a form (form-urlencoded or multipart) is      *)
(* answered with a 303 redirect, to the app home on success and to /login  *)
(* with an error parameter on every failure; a login submitted as JSON is  *)
(* answered with a JSON body.                                              *)
(***************************************************************************)
C10_FormLoginRedirects ==
  \A r \in Slots :
    (req[r].kind = "login" /\ req[r].pc = "done" /\ req[r].resp.kind # "raised")
      => /\ req[r].ctype \in FormTypes =>
              /\ req[r].resp.status = 303
              /\ req[r].resp.location =
                   IF req[r].resp.set # NoCookies THEN "/app"
                   ELSE "/login?error=invalid_credentials"
         /\ req[r].ctype = "application/json" => req[r].resp.kind = "json"

(***************************************************************************)
(* The store behind its factory, on its own: callers obtain the store from *)
(* getSessionStore and call create, get, touch and destroy on it, as       *)
(* createSession, hydrateSession and destroySession do; time passes; and   *)
(* process.env may be changed after the environment has been read.         *)
(***************************************************************************)
InitStores ==
  /\ store = [k \in StoreKeys |-> Null]
  /\ now = 0
  /\ nextSid = 0
  /\ req = [r \in Slots |-> Idle]
  /\ started = 0
  /\ issued = {}
  /\ destroyed = {}
  /\ revoked = {}
  /\ CookieIdle
  /\ CorrIdle
  /\ PxIdle
  /\ CfgIdle
  /\ PgIdle
  /\ valkeyUrl \in BOOLEAN
  /\ mode = IF valkeyUrl THEN "distributed" ELSE "standalone"
  /\ cachedEnv = Null
  /\ storeInst = Null
  /\ memMap = [k \in StoreKeys |-> Null]
  /\ lastOp = NoLastOp

\* the session ids the callers use
OpIds == {0, 1}

\* token and username of the sessions created: "ab" without a username,
\* "\u00E9b" with username "u"
Identities ==
  { [token |-> <<97, 98>>, username |-> Null],
    [token |-> <<233, 98>>, username |-> Some(<<117>>)] }

\* getSessionStore() (and getValkeyClient()) as part of a call: the caches
\* after it
FactoryCalled ==
  /\ cachedEnv' = Some(getServerEnv(cachedEnv, valkeyUrl))
  /\ storeInst' = Some(getSessionStore(storeInst, cachedEnv, valkeyUrl))

StoreFrame ==
  UNCHANGED <<mode, req, started, issued, destroyed, revoked, cookieVars, corrVars, pxVars, cfgVars, pgVars,
              valkeyUrl>>

\* createSession: a fresh session id (the ids are used in order)
StoreOpCreate ==
  /\ nextSid \in OpIds
  /\ nextSid' = nextSid + 1
  /\ \E sid \in {nextSid}, who \in Identities :
       LET payload == [token |-> who.token, username |-> who.username,
                       createdAt |-> now, lastSeen |-> now] IN
       /\ IF getSessionStore(storeInst, cachedEnv, valkeyUrl) = "valkey"
            THEN store' = StoreCreate(store, sid, payload) /\ UNCHANGED memMap
            ELSE memMap' = MemCreate(memMap, sid, payload) /\ UNCHANGED store
       /\ lastOp' = [lastOp EXCEPT !.op = "create", !.id = sid, !.result = Null]
  /\ FactoryCalled
  /\ UNCHANGED now
  /\ StoreFrame

StoreOpGet ==
  /\ \E sid \in OpIds :
       LET valkey == getSessionStore(storeInst, cachedEnv, valkeyUrl) = "valkey"
           payload == IF valkey THEN StoreGet(store, sid) ELSE MemGet(memMap, sid) IN
       /\ memMap' = IF valkey THEN memMap ELSE MemAfterGet(memMap, sid)
       /\ lastOp' = [op |-> "get", id |-> sid, result |-> payload,
                     held |-> IF payload = Null THEN lastOp.held
                              ELSE Some([id |-> sid, payload |-> payload[1]])]
  /\ FactoryCalled
  /\ UNCHANGED <<store, now, nextSid>>
  /\ StoreFrame

StoreOpTouch ==
  /\ lastOp.held # Null
  /\ LET sid == lastOp.held[1].id
         touched == Touched(lastOp.held[1].payload) IN
       /\ IF getSessionStore(storeInst, cachedEnv, valkeyUrl) = "valkey"
            THEN store' = StoreTouch(store, sid, touched) /\ UNCHANGED memMap
            ELSE memMap' = MemTouch(memMap, sid, touched) /\ UNCHANGED store
       /\ lastOp' = [op |-> "touch", id |-> sid, result |-> Null, held |-> Null]
  /\ FactoryCalled
  /\ UNCHANGED <<now, nextSid>>
  /\ StoreFrame

StoreOpDestroy ==
  /\ \E sid \in OpIds :
       /\ IF getSessionStore(storeInst, cachedEnv, valkeyUrl) = "valkey"
            THEN store' = StoreDestroy(store, sid) /\ UNCHANGED memMap
            ELSE memMap' = MemDestroy(memMap, sid) /\ UNCHANGED store
       /\ lastOp' = [lastOp EXCEPT !.op = "destroy", !.id = sid, !.result = Null]
  /\ FactoryCalled
  /\ UNCHANGED <<now, nextSid>>
  /\ StoreFrame

StoreTick ==
  /\ now < MaxTime + SESSION_TTL_SECONDS
  /\ now' = now + 1
  /\ lastOp' = [lastOp EXCEPT !.op = "none", !.result = Null]
  /\ UNCHANGED <<store, memMap, cachedEnv, storeInst, nextSid>>
  /\ StoreFrame

\* process.env.VALKEY_URL is set or removed while the process runs
EnvMutated ==
  /\ cachedEnv # Null
  /\ valkeyUrl' = ~valkeyUrl
  /\ lastOp' = [lastOp EXCEPT !.op = "none", !.result = Null]
  /\ UNCHANGED <<sessionVars, cookieVars, corrVars, pxVars, cfgVars, pgVars, cachedEnv,
                 storeInst, memMap>>

NextStores ==
  \/ StoreOpCreate
  \/ StoreOpGet
  \/ StoreOpTouch
  \/ StoreOpDestroy
  \/ StoreTick
  \/ EnvMutated

SpecStores == InitStores /\ [][NextStores]_vars

(***************************************************************************)
(* The mode of the process: the store calls and setSessionCookie, while    *)
(* process.env may be changed; the clock is left out.                      *)
(***************************************************************************)
NextMode ==
  \/ StoreOpCreate
  \/ StoreOpGet
  \/ StoreOpTouch
  \/ StoreOpDestroy
  \/ EnvMutated
  \/ CookieSet

SpecMode == InitStores /\ [][NextMode]_vars

\* the cookies the response carries
WrittenCookies == { n \in CookieNames : respCookies[n] # Null }

\* the scheme is https by the forwarded header when it is present and its
\* first value is not empty, by the URL otherwise
SchemeIsHttps ==
  \/ xfProto # Null /\ xfProto[1][1] \in {"https", " HTTPS "}
  \/ (xfProto = Null \/ xfProto[1][1] = "") /\ urlProto = "https:"

(***************************************************************************)
(* C11, as stated: the Secure attribute of every session cookie written is *)
(* true exactly when the effective scheme is https, the effective scheme   *)
(* being the first x-forwarded-proto value when the header is present and  *)
(* the URL scheme otherwise.                                               *)
(***************************************************************************)
C11_SecureIffHttps ==
  \A n \in WrittenCookies :
    respCookies[n][1].secure <=>
      IF xfProto # Null THEN xfProto[1][1] \in {"https", " HTTPS "}
      ELSE urlProto = "https:"

(***************************************************************************)
(* C11, amended: the Secure attribute of every session cookie written is   *)
(* true exactly when NODE_ENV is production and the effective scheme is    *)
(* https, the effective scheme being the first x-forwarded-proto value     *)
(* (trimmed, lower-cased) when the header is present and that value is not *)
(* empty, and the URL scheme otherwise.                                    *)
(***************************************************************************)
C11_SecureIffProductionHttps ==
  \A n \in WrittenCookies :
    respCookies[n][1].secure <=> (nodeEnv = "production" /\ SchemeIsHttps)

C11_Witness ==
  /\ nodeEnv = "production"
  /\ xfProto = Some(<<" HTTPS ">>) /\ urlProto = "http:"
  /\ WrittenCookies # {}
  /\ \A n \in WrittenCookies : respCookies[n][1].secure

(***************************************************************************)
(* C18: every call of clearSessionCookie writes all three cookies          *)
(* (session id, token, username) with an empty value and max-age 0, in     *)
(* both modes.                                                             *)
(***************************************************************************)
C18_ClearExpiresAllThree ==
  [][CookieClear =>
       \A n \in CookieNames :
         /\ respCookies'[n] # Null
         /\ respCookies'[n][1].value = <<>>
         /\ respCookies'[n][1].maxAge = 0
         /\ respCookies'[n][1].path = "/"]_vars

C18_Witness ==
  /\ usesDistributedSessionStore
  /\ respCookies[SESSION_TOKEN_COOKIE_NAME] # Null
  /\ \A n \in CookieNames :
       respCookies[n] # Null /\ respCookies[n][1].value = <<>>
         /\ respCookies[n][1].maxAge = 0

\* one step of request r, as C12 requires it
C12_Step(r) ==
  (req[r].kind = "proxy" /\ req[r].pc = "fetch" /\ req'[r].up = -1)
    => /\ req'[r].pc = "done"
       /\ req'[r].resp.status = 502
       /\ req'[r].resp.kind = "json"
       /\ req'[r].calls = 1
       /\ ~req'[r].resp.cleared
       /\ req'[r].resp.set = NoCookies
       /\ store' = store
       /\ destroyed' = destroyed

(***************************************************************************)
(* C12: when the upstream fetch of the catch-all proxy fails at the        *)
(* network level the proxy answers 502 with a JSON error body after one    *)
(* upstream attempt, and leaves the store and the session cookies alone.   *)
(***************************************************************************)
C12_FetchFailureIs502 == [][\A r \in Slots : C12_Step(r)]_vars

C12_Witness ==
  \E r \in Slots :
    /\ usesDistributedSessionStore
    /\ req[r].kind = "proxy" /\ req[r].pc = "done" /\ req[r].up = -1
    /\ req[r].resp.status = 502 /\ req[r].calls = 1
    /\ LiveRecord(store, req[r].jar.sid)

(***************************************************************************)
(* C13: on every route that calls the upstream, the best-effort logout     *)
(* call excepted, an unreachable upstream is answered 502 with a JSON      *)
(* body; no network error escapes the handler.                             *)
(***************************************************************************)
C13_UnreachableUpstreamIs502 ==
  \A r \in Slots :
    (req[r].pc = "done" /\ req[r].up = -1 /\ req[r].kind # "logout")
      => /\ req[r].resp.kind = "json"
         /\ req[r].resp.status = 502

\* the store implementation the factory hands out
Backend == getSessionStore(storeInst, cachedEnv, valkeyUrl)

\* the live record of sid in implementation inst at time t: its payload and
\* its expiry time, or Null
EntryAt(inst, s, m, t, sid) ==
  IF inst = "valkey"
    THEN IF s[sid] # Null /\ s[sid][1].exp > t /\ s[sid][1].raw.json
           THEN Some([payload |-> s[sid][1].raw.val, expiry |-> s[sid][1].exp])
           ELSE Null
  ELSE IF m[sid] # Null
    THEN Some([payload |-> m[sid][1].payload, expiry |-> m[sid][1].expiresAt])
  ELSE Null

EntryBefore(sid) == EntryAt(Backend, store, memMap, now, sid)

EntryAfter(sid) == EntryAt(Backend, store', memMap', now', sid)

\* a destroy step, and a get that follows a destroy of the same id
C14_Step ==
  /\ StoreOpDestroy =>
       LET sid == lastOp'.id IN
       /\ lastOp'.op = "destroy"
       /\ EntryAfter(sid) = Null
       /\ (IF Backend = "valkey" THEN StoreGet(store', sid)
           ELSE MemGet(memMap', sid)) = Null
       /\ \A other \in StoreKeys \ {sid} :
            store'[other] = store[other] /\ memMap'[other] = memMap[other]
       /\ EntryBefore(sid) = Null =>
            \A k \in StoreKeys : EntryAfter(k) = EntryBefore(k)
  /\ (lastOp.op = "destroy" /\ StoreOpGet /\ lastOp'.id = lastOp.id) =>
       lastOp'.result = Null

(***************************************************************************)
(* C14: in both store implementations, after destroy(id) the record is     *)
(* gone and get(id) returns none; destroy of an absent id (a second        *)
(* destroy included) completes and changes nothing; every other record is  *)
(* left as it was.                                                         *)
(***************************************************************************)
C14_DestroyIdempotent == [][C14_Step]_vars

\* id 1 was never created and has been destroyed; the record of id 0 stands
C14_Witness ==
  /\ storeInst = Some("memory")
  /\ lastOp.op = "destroy" /\ lastOp.id = 1
  /\ nextSid = 1
  /\ memMap[0] # Null /\ memMap[1] = Null

\* a step keeps the identity of every record; a touch changes lastSeen and
\* the expiry only
C15_Step ==
  /\ \A sid \in OpIds :
       (EntryBefore(sid) # Null /\ EntryAfter(sid) # Null) =>
         LET p == EntryBefore(sid)[1].payload
             q == EntryAfter(sid)[1].payload IN
         /\ q.token = p.token
         /\ q.username = p.username
         /\ q.createdAt = p.createdAt
  /\ StoreOpTouch =>
       LET sid == lastOp'.id IN
       /\ EntryAfter(sid) # Null
       /\ EntryBefore(sid) # Null =>
            EntryAfter(sid)[1].payload =
              [EntryBefore(sid)[1].payload EXCEPT !.lastSeen = now]

(***************************************************************************)
(* C15: touching a session, any number of times, leaves token, username    *)
(* and createdAt of its record as they were created; a touch changes only  *)
(* lastSeen and the expiry.                                                *)
(***************************************************************************)
C15_TouchKeepsIdentity == [][C15_Step]_vars

\* a record with a username touched after the time of its creation
C15_Witness ==
  /\ lastOp.op = "touch"
  /\ EntryBefore(lastOp.id) # Null
  /\ LET p == EntryBefore(lastOp.id)[1].payload IN
       /\ p.lastSeen > p.createdAt
       /\ p.username = Some(<<117>>)
       /\ p.token = <<233, 98>>

\* create and touch write the expiry TTL from now; get returns the record
\* when it is present and unexpired and nothing otherwise; the in-memory get
\* removes the expired entry it finds
C16_Step ==
  /\ (StoreOpCreate \/ StoreOpTouch) =>
       /\ EntryAfter(lastOp'.id) # Null
       /\ EntryAfter(lastOp'.id)[1].expiry = now + SESSION_TTL_SECONDS
  /\ StoreOpGet =>
       LET sid == lastOp'.id
           written == IF Backend = "valkey"
                        THEN IF store[sid] = Null THEN Null ELSE Some(store[sid][1].exp)
                        ELSE IF memMap[sid] = Null THEN Null
                             ELSE Some(memMap[sid][1].expiresAt) IN
       /\ lastOp'.result # Null =>
            /\ written # Null
            /\ now - (written[1] - SESSION_TTL_SECONDS) <= SESSION_TTL_SECONDS
            /\ lastOp'.result = Some(EntryBefore(sid)[1].payload)
       /\ (written # Null /\ now < written[1]) => lastOp'.result # Null
       /\ (written = Null \/ now > written[1]) => lastOp'.result = Null
       /\ (Backend = "memory" /\ written # Null /\ now > written[1]) =>
            memMap'[sid] = Null
       /\ store' = store

(***************************************************************************)
(* C16: create and touch set the expiry of the record to the TTL counted   *)
(* from the call; get returns the record when it is present and unexpired  *)
(* and nothing when it is absent or was last written longer ago than the   *)
(* TTL; the in-memory get removes an expired entry it finds.               *)
(***************************************************************************)
C16_SlidingTtl == [][C16_Step]_vars

\* a get returns a record created longer ago than the TTL, which a touch
\* has kept alive
C16_Witness ==
  /\ lastOp.op = "get"
  /\ lastOp.result # Null
  /\ now - lastOp.result[1].createdAt > SESSION_TTL_SECONDS
  /\ lastOp.result[1].lastSeen > lastOp.result[1].createdAt

\* the cookie named n carries a value
Valued(table, n) == table[n] # Null /\ table[n][1].value # <<>>

\* the mode, the cached environment and the store instance stay as they are
\* once set, agree with one another, and the cookies written match the mode
C17_Step ==
  /\ mode' = mode
  /\ cachedEnv # Null => cachedEnv' = cachedEnv
  /\ storeInst # Null => storeInst' = storeInst
  /\ cachedEnv' # Null => (cachedEnv'[1] <=> mode' = "distributed")
  /\ storeInst' # Null =>
       storeInst'[1] = IF mode' = "distributed" THEN "valkey" ELSE "memory"
  /\ mode' = "distributed" =>
       /\ ~Valued(respCookies', SESSION_TOKEN_COOKIE_NAME)
       /\ ~Valued(respCookies', SESSION_USERNAME_COOKIE_NAME)
  /\ mode' = "standalone" => ~Valued(respCookies', SESSION_COOKIE_NAME)
  /\ CookieSet =>
       (mode = "distributed" => Valued(respCookies', SESSION_COOKIE_NAME))
  /\ ~(Valued(respCookies', SESSION_COOKIE_NAME)
         /\ Valued(respCookies', SESSION_TOKEN_COOKIE_NAME))

(***************************************************************************)
(* C17: one session mode for the lifetime of the process: the environment  *)
(* read first is the one every later call observes, the factory returns    *)
(* the same store instance on every call and its backend matches the mode, *)
(* setSessionCookie gives a value to the session-id cookie only in         *)
(* distributed mode and to the token and username cookies only in          *)
(* standalone mode, and no response carries both a session-id cookie and a *)
(* token cookie with a value.                                              *)
(***************************************************************************)
C17_OneModePerProcess == [][C17_Step]_vars

\* process.env has changed since it was read, and a store call and a cookie
\* write have happened after the change
C17_Witness ==
  /\ cachedEnv # Null /\ cachedEnv[1] # valkeyUrl
  /\ storeInst # Null
  /\ lastOp.op \in {"create", "get", "touch", "destroy"}
  /\ respCookies # NoCookieTable

\* a login, logout or session-status request that has been answered
AuthRouteDone(r) ==
  req[r].kind \in {"login", "logout", "status"} /\ req[r].pc = "done"

\* the response of rq carries no token cookie value, and the response of an
\* accepted login is the one every other upstream token would have produced
TokenFree(rq) ==
  /\ rq.resp.set.tok = <<>>
  /\ (rq.kind = "login" /\ rq.resp.set # NoCookies) =>
       \A t \in Tokens :
         setSessionCookie(LoginResponse(rq), rq.newSid, t) = rq.resp

InitCorrelation ==
  /\ SessionIdle
  /\ mode \in {"distributed"}
  /\ StoreIdle
  /\ CookieIdle
  /\ PxIdle
  /\ CfgIdle
  /\ PgIdle
  /\ cidHeader \in CidHeaders
  /\ cidCookie \in CidCookies
  /\ cidMethod \in CidMethods
  /\ cidAccept \in CidAccepts
  /\ cidNav = isHtmlNavigationRequest(cidMethod, cidAccept)
  /\ cidOut = NoCorrelation
  /\ cidResp = NoCidResponse

CorrFrame ==
  UNCHANGED <<sessionVars, cookieVars, storeVars, pxVars, cfgVars, pgVars, cidCookie, cidNav,
              cidMethod, cidAccept>>

\* proxy (middleware): forwardedHeaders.set(CORRELATION_ID_HEADER, correlationId)
MiddlewareProxy ==
  /\ cidOut.who = "none"
  /\ \E id \in proxyCorrelationId(cidHeader, cidCookie, cidNav) :
       /\ cidOut' = [who |-> "proxy", given |-> cidHeader, id |-> id]
       /\ cidResp' = CidResponse(id, xfProto, urlProto)
       /\ cidHeader' = cidResp'.forwarded
  /\ CorrFrame

ProxyToBackendCorrelation ==
  /\ cidOut.who \in {"none", "proxy"}
  /\ \E id \in proxyToBackendCorrelationId(cidHeader) :
       cidOut' = [who |-> "proxyToBackend", given |-> cidHeader, id |-> id]
  /\ UNCHANGED <<cidHeader, cidResp>>
  /\ CorrFrame

RouteCorrelation ==
  /\ cidOut.who \in {"none", "proxy"}
  /\ \E id \in routeCorrelationId(cidHeader) :
       cidOut' = [who |-> "route", given |-> cidHeader, id |-> id]
  /\ UNCHANGED <<cidHeader, cidResp>>
  /\ CorrFrame

NextCorrelation ==
  \/ MiddlewareProxy
  \/ ProxyToBackendCorrelation
  \/ RouteCorrelation

SpecCorrelation == InitCorrelation /\ [][NextCorrelation]_vars

\* the ids the caller that chose cidOut may choose for the header value h
CorrelationIds(h) ==
  IF cidOut.who = "proxy" THEN proxyCorrelationId(h, cidCookie, cidNav)
  ELSE IF cidOut.who = "proxyToBackend" THEN proxyToBackendCorrelationId(h)
  ELSE routeCorrelationId(h)

\* the caller did with the header value it was given what it does without
\* a header, and did not use the value
AsIfMissing ==
  /\ CorrelationIds(cidOut.given) = CorrelationIds(Null)
  /\ cidOut.id \in CorrelationIds(Null)
  /\ cidOut.id # cidOut.given[1]
  /\ cidOut.id # Trim(cidOut.given[1])

C21_MiddlewareCorrelation ==
  [][MiddlewareProxy =>
       LET id == cidOut'.id
           headerId == normalizeCorrelationId(cidHeader)
           cookieId == normalizeCorrelationId(cidCookie)
           navigation == /\ cidMethod \in {"GET", "get"}
                         /\ cidAccept \in {Some("text/html,application/xhtml+xml"),
                                           Some("TEXT/HTML")} IN
       /\ navigation => id \in generateCorrelationId
       /\ (~navigation /\ headerId # Null) => id = headerId[1]
       /\ (~navigation /\ headerId = Null /\ cookieId # Null) => id = cookieId[1]
       /\ (~navigation /\ headerId = Null /\ cookieId = Null) =>
            id \in generateCorrelationId
       /\ cidHeader' = Some(id)
       /\ cidResp'.forwarded = Some(id)
       /\ cidResp'.header = Some(id)
       /\ cidResp'.cookie # Null
       /\ cidResp'.cookie[1].value = id
       /\ cidResp'.cookie[1].maxAge = 1800
       /\ PatternTest(id)]_vars

\* a navigation with a valid header and a valid cookie was given a fresh id
C21_Witness ==
  /\ cidOut.who = "proxy"
  /\ cidMethod = "get" /\ cidAccept = Some("TEXT/HTML")
  /\ cidOut.given = Some(Repeat(97, 8))
  /\ cidCookie = Some(Repeat(98, 8))
  /\ cidOut.id \in generateCorrelationId
  /\ cidResp.cookie[1].value = cidOut.id

\* the step on which request r enters the catch-all proxy, as C22 requires it
C22_Step(r) ==
  (~InFlight(r) /\ req'[r].kind = "proxy" /\ req'[r] # req[r]) =>
    LET rq == req'[r]
        badMethod == rq.method \notin {"GET", "POST", "PATCH", "PUT", "DELETE"}
        badPath == ~PathConstructible(rq.path, rq.slash) IN
    /\ (badMethod \/ badPath) =>
         /\ rq.pc = "done"
         /\ rq.resp.kind = "json"
         /\ rq.resp.status = IF badMethod THEN 405 ELSE 400
         /\ ~rq.resolved /\ rq.sess = Null /\ ~rq.storeFailed
         /\ rq.calls = 0 /\ rq.up = 0
         /\ ~rq.resp.cleared /\ rq.resp.set = NoCookies
         /\ store' = store /\ destroyed' = destroyed /\ revoked' = revoked
    /\ (rq.pc = "done" /\ rq.resp.status \in {400, 405}) => (badMethod \/ badPath)

(***************************************************************************)
(* C22: a request the catch-all proxy rejects as malformed (405 for an     *)
(* unsupported method, 400 when the path segments are empty or the joined  *)
(* path does not begin with api/) is answered at once: the store is not    *)
(* read or written, no session is resolved or destroyed, no cookie is set  *)
(* or cleared and no upstream call is made; an unsupported method is       *)
(* answered 405 whatever the path, and a bad path 400 whatever the         *)
(* cookies.                                                                *)
(***************************************************************************)
C22_MalformedTouchesNothing == [][\A r \in Slots : C22_Step(r)]_vars

\* a bad path under a supported method, bearing the cookie of a live session
C22_Witness ==
  \E r \in Slots :
    /\ usesDistributedSessionStore
    /\ req[r].kind = "proxy" /\ req[r].pc = "done"
    /\ req[r].method = "DELETE" /\ req[r].path = <<"classes">>
    /\ req[r].jar \in IssuedJars /\ LiveRecord(store, req[r].jar.sid)
    /\ req[r].resp.status = 400
    /\ store[req[r].jar.sid][1].raw.val.lastSeen = 0 /\ now = 1

(***************************************************************************)
(* proxyToBackend followed for one request, with its data.                 *)
(***************************************************************************)
PxMethods == {"GET", "POST", "DELETE", "HEAD"}

PxPaths ==
  { [parts |-> <<"api", "v0", "classes">>, slash |-> FALSE],
    [parts |-> <<"classes">>, slash |-> FALSE] }

\* request.nextUrl.search
PxSearches == {"", "?limit=1"}

\* content-type and accept of the browser request: absent, a value, and
\* (accept) present but empty
PxContentTypes == { Null, Some("application/json") }

PxAccepts == { Null, Some(""), Some("*/*") }

\* request bodies: empty, "{}", and a byte that is not UTF-8
PxBodies == { <<>>, <<123, 125>>, <<233>> }

PxCidHeaders == { Null, Some(Repeat(97, 8)), Some(Repeat(97, 3)) }

\* the sessions getSessionFromRequest may return
PxSessions ==
  { Null, Some([sid |-> 1, token |-> <<97, 98>>]),
    Some([sid |-> CookieTokenSid, token |-> <<233, 98>>]) }

\* upstream responses: status, content-type header, body bytes ("[]",
\* empty, and a byte that is not UTF-8)
PxUpstreamStatuses == {200, 204, 401}

PxUpstreamResponses ==
  { [status |-> st, ctype |-> ct, body |-> b] :
      st \in PxUpstreamStatuses,
      ct \in { Null, Some("application/json") },
      b \in { <<>>, <<91, 93>>, <<233>> } }

\* Body.text(): UTF-8 decode; a string given as a body is UTF-8 encoded
BodyText(bytes) == Utf8Decode(bytes)

BodyOfString(str) == Utf8Encode(str)

\* the statuses for which the Response constructor rejects a non-null body
NullBodyStatuses == {101, 204, 205, 304}

\* the upstream request proxyToBackend builds
UpstreamRequest(rq) ==
  LET bodyAllowed == rq.method # "GET" /\ rq.method # "HEAD" IN
  [method |-> rq.method,
   path |-> toUpstreamPath(rq.parts, rq.slash)[1],
   search |-> rq.search,
   headers |-> [contentType |-> IF rq.ctype # Null /\ rq.ctype[1] # ""
                                  THEN rq.ctype ELSE Null,
                accept |-> IF rq.accept # Null /\ rq.accept[1] # ""
                             THEN rq.accept ELSE Null,
                authorization |-> Some(<<"Bearer", rq.session[1].token>>),
                correlationId |-> Some(rq.cid),
                cookie |-> Null],
   body |-> IF bodyAllowed THEN Some(BodyOfString(BodyText(rq.body))) ELSE Null]

\* a JSON response of the proxy itself
PxJson(status, cid) ==
  [kind |-> "json", status |-> status, body |-> <<>>,
   contentType |-> Some("application/json"), correlationId |-> Some(cid),
   cleared |-> FALSE]

\* the handler throws
PxRaised ==
  [kind |-> "raised", status |-> 500, body |-> <<>>, contentType |-> Null,
   correlationId |-> Null, cleared |-> FALSE]

\* new NextResponse(await upstreamResponse.text(), { status }) with the
\* upstream content-type and the correlation id; the constructor throws for
\* a null-body status
Relayed(rq, up) ==
  IF up.status \in NullBodyStatuses THEN PxRaised
  ELSE [kind |-> "relay", status |-> up.status,
        body |-> BodyOfString(BodyText(up.body)),
        contentType |-> IF up.ctype # Null /\ up.ctype[1] # "" THEN up.ctype
                        ELSE Some("text/plain;charset=UTF-8"),
        correlationId |-> Some(rq.cid),
        cleared |-> up.status = 401]

InitProxied ==
  /\ SessionIdle
  /\ mode \in {"distributed", "standalone"}
  /\ StoreIdle
  /\ CookieIdle
  /\ CorrIdle
  /\ CfgIdle
  /\ PgIdle
  /\ \E method \in PxMethods, path \in PxPaths, search \in PxSearches,
        ctype \in PxContentTypes, accept \in PxAccepts, body \in PxBodies,
        cid \in PxCidHeaders :
       px = [NoProxied EXCEPT !.pc = "entry", !.method = method,
               !.parts = path.parts, !.slash = path.slash, !.search = search,
               !.ctype = ctype, !.accept = accept, !.body = body,
               !.cidGiven = cid]

PxFrame == UNCHANGED <<sessionVars, cookieVars, storeVars, corrVars, cfgVars, pgVars>>

\* the correlation id, the method check and the path check
PxEntry ==
  /\ px.pc = "entry"
  /\ \E cid \in proxyToBackendCorrelationId(px.cidGiven) :
       px' = IF ~MethodAllowed(px.method)
               THEN [px EXCEPT !.pc = "done", !.cid = cid, !.resp = Some(PxJson(405, cid))]
             ELSE IF toUpstreamPath(px.parts, px.slash) = Null
               THEN [px EXCEPT !.pc = "done", !.cid = cid, !.resp = Some(PxJson(400, cid))]
             ELSE [px EXCEPT !.pc = "resolve", !.cid = cid]
  /\ PxFrame

\* await getSessionFromRequest(request), then the upstream request is built
\* and fetch is called
PxResolve ==
  /\ px.pc = "resolve"
  /\ \E session \in PxSessions :
       /\ IF session = Null THEN TRUE
          ELSE (mode = "standalone") <=> (session[1].sid = CookieTokenSid)
       /\ px' = IF session = Null
                  THEN [px EXCEPT !.pc = "done", !.resp = Some(PxJson(401, px.cid))]
                  ELSE LET rq == [px EXCEPT !.session = session] IN
                       [rq EXCEPT !.pc = "fetch", !.sent = Some(UpstreamRequest(rq))]
  /\ PxFrame

\* the upstream answers
PxFetch ==
  /\ px.pc = "fetch"
  /\ \E up \in PxUpstreamResponses :
       px' = [px EXCEPT !.pc = "done", !.up = Some(up),
                !.resp = Some(Relayed(px, up)),
                !.destroyCall =
                   IF up.status = 401 /\ up.status \notin NullBodyStatuses
                        /\ usesDistributedSessionStore
                     THEN Some(px.session[1].sid) ELSE Null]
  /\ PxFrame

\* fetch throws
PxFetchFails ==
  /\ px.pc = "fetch"
  /\ px' = [px EXCEPT !.pc = "done", !.resp = Some(PxJson(502, px.cid))]
  /\ PxFrame

NextProxied ==
  \/ PxEntry
  \/ PxResolve
  \/ PxFetch
  \/ PxFetchFails

SpecProxied == InitProxied /\ [][NextProxied]_vars

\* the upstream request of the request followed: issued after a session was
\* resolved, with the method, the query string, the bearer token of that
\* session, the correlation id, the content-type and accept headers and no
\* other header of the browser request, and a body when the method is not GET
UpstreamRequestWellFormed ==
  px.sent # Null =>
    LET sent == px.sent[1] IN
    /\ px.session # Null
    /\ sent.method = px.method
    /\ sent.path = px.parts
    /\ sent.search = px.search
    /\ sent.headers.authorization = Some(<<"Bearer", px.session[1].token>>)
    /\ sent.headers.correlationId = Some(px.cid)
    /\ px.cid \in proxyToBackendCorrelationId(px.cidGiven)
    /\ sent.headers.contentType = px.ctype
    /\ sent.headers.accept = IF px.accept = Some("") THEN Null ELSE px.accept
    /\ sent.headers.cookie = Null
    /\ (sent.body # Null) <=> (px.method # "GET")

(***************************************************************************)
(* C23: every upstream request of the catch-all proxy is issued after      *)
(* session resolution returned a session, copies the method and the query  *)
(* string, carries Authorization: Bearer with the token of that session,   *)
(* the correlation id of the request, only the content-type and accept     *)
(* headers of the browser request, and the original body exactly when the  *)
(* method is not GET.                                                      *)
(***************************************************************************)
C23_UpstreamRequestFaithful ==
  /\ UpstreamRequestWellFormed
  /\ (px.sent # Null /\ px.sent[1].body # Null) => px.sent[1].body = Some(px.body)
  /\ (px.pc = "done" /\ px.sent = Null) => px.up = Null

(***************************************************************************)
(* C24: for every upstream response the catch-all proxy receives, the      *)
(* response it returns has the same status and the same body, the upstream *)
(* content-type when there was one, and the correlation id of the request  *)
(* in x-correlation-id.                                                    *)
(***************************************************************************)
C24_RelayVerbatim ==
  (px.pc = "done" /\ px.up # Null) =>
    LET up == px.up[1]
        resp == px.resp[1] IN
    /\ resp.kind = "relay"
    /\ resp.status = up.status
    /\ resp.body = up.body
    /\ up.ctype # Null => resp.contentType = up.ctype
    /\ resp.correlationId = Some(px.cid)

\* C24 without the null-body statuses and the bodies that are not UTF-8
RelayVerbatimForText ==
  (px.pc = "done" /\ px.up # Null /\ px.up[1].status \notin NullBodyStatuses
     /\ BodyOfString(BodyText(px.up[1].body)) = px.up[1].body) =>
    LET up == px.up[1]
        resp == px.resp[1] IN
    /\ resp.kind = "relay"
    /\ resp.status = up.status
    /\ resp.body = up.body
    /\ up.ctype # Null => resp.contentType = up.ctype
    /\ resp.correlationId = Some(px.cid)

(***************************************************************************)
(* C25: resolveSession returns a session for the cookies of a request only *)
(* if a successful login issued those cookies with the token of that       *)
(* session and the request did not begin after the upstream reported them  *)
(* invalid; it returns none for cookies no login produced, in either mode. *)
(***************************************************************************)
C25_AuthenticatedOnlyByLogin ==
  \A r \in Slots :
    (req[r].resolved /\ req[r].sess # Null) =>
      /\ \E i \in issued : i.jar = req[r].jar /\ i.token = req[r].sess[1].token
      /\ ~req[r].afterRevoke

(***************************************************************************)
(* Handlers and the configuration.  Each handler is the sequence of its    *)
(* operations in source order: "config" is a call of getServerEnv          *)
(* (through usesDistributedSessionStore, buildBackendUrl, cookieSettings   *)
(* or getSessionStore), "session" a session operation, "upstream" a call   *)
(* of the upstream API, "respond" a response built without any of them.    *)
(***************************************************************************)
HandlerKinds ==
  {"status", "logout", "login", "loginMalformed", "proxy", "proxyMalformed"}

HandlerOps(kind) ==
  IF kind = "status" THEN <<"config", "session", "respond">>
  ELSE IF kind = "logout"
    THEN <<"config", "session", "config", "upstream", "config", "session",
           "config", "respond">>
  ELSE IF kind = "login"
    THEN <<"config", "upstream", "config", "session", "config", "respond">>
  ELSE IF kind = "proxy"
    THEN <<"config", "session", "config", "upstream", "respond">>
  ELSE <<"respond">>

\* the operations performed before the first throw, and how the run ends
RECURSIVE RunOps(_, _, _, _)
RunOps(ops, done, cache, env) ==
  IF ops = <<>> THEN [executed |-> done, outcome |-> "served", cache |-> cache]
  ELSE IF Head(ops) = "config"
    THEN LET got == getServerEnvValidated(cache, env) IN
         IF got.threw
           THEN [executed |-> Append(done, "config"),
                 outcome |-> "configError", cache |-> got.cache]
           ELSE RunOps(Tail(ops), Append(done, "config"), got.cache, env)
  ELSE RunOps(Tail(ops), Append(done, Head(ops)), cache, env)

InitConfig ==
  /\ SessionIdle
  /\ CookieIdle
  /\ CorrIdle
  /\ PxIdle
  /\ PgIdle
  /\ \E env \in ProcessEnvs :
       /\ cfg = [env |-> env, run |-> NoRun]
       /\ valkeyUrl = (env.VALKEY_URL # Null /\ env.VALKEY_URL[1] # "")
  /\ mode = IF valkeyUrl THEN "distributed" ELSE "standalone"
  /\ cachedEnv = Null
  /\ storeInst = Null
  /\ memMap = [k \in StoreKeys |-> Null]
  /\ lastOp = NoLastOp

HandlerRuns ==
  /\ \E kind \in HandlerKinds :
       LET ran == RunOps(HandlerOps(kind), <<>>, cachedEnv, cfg.env) IN
       /\ cfg' = [cfg EXCEPT !.run = [kind |-> kind, executed |-> ran.executed,
                                      outcome |-> ran.outcome]]
       /\ cachedEnv' = ran.cache
  /\ UNCHANGED <<sessionVars, cookieVars, corrVars, pxVars, pgVars, valkeyUrl, storeInst,
                 memMap, lastOp>>

NextConfig == HandlerRuns

SpecConfig == InitConfig /\ [][NextConfig]_vars

\* the number of elements of seq that are in the set s
RECURSIVE CountIn(_, _)
CountIn(seq, s) ==
  IF seq = <<>> THEN 0
  ELSE (IF Head(seq) \in s THEN 1 ELSE 0) + CountIn(Tail(seq), s)

(***************************************************************************)
(* C26: while a required environment value is missing or invalid, every    *)
(* handler run that reads the configuration ends with the configuration    *)
(* error, at its first read and before any session operation or upstream   *)
(* call, on every request; and the failed validation is never cached.      *)
(***************************************************************************)
C26_InvalidEnvRefusesToServe ==
  [][(HandlerRuns /\ ~serverEnvSchema(cfg.env)) =>
       /\ cachedEnv = Null /\ cachedEnv' = Null
       /\ CountIn(HandlerOps(cfg'.run.kind), {"config"}) > 0 =>
            /\ cfg'.run.outcome = "configError"
            /\ cfg'.run.executed = <<"config">>
            /\ CountIn(cfg'.run.executed, {"session", "upstream", "respond"}) = 0
       /\ CountIn(HandlerOps(cfg'.run.kind), {"config"}) = 0 =>
            CountIn(cfg'.run.executed, {"session", "upstream"}) = 0]_vars

\* a logout failed on its first configuration read after a login had failed
\* the same way: BACKEND_BASE_URL is not a URL
C26_Witness ==
  /\ cfg.env.BACKEND_BASE_URL = Some("hubuum")
  /\ cfg.env.SESSION_TTL_SECONDS = Some("60")
  /\ cfg.run.kind = "logout"
  /\ cfg.run.outcome = "configError"
  /\ cachedEnv = Null

(***************************************************************************)
(* The login route, step by step: a step of a login request is a step that *)
(* changes the request's slot and leaves a login request in it.            *)
(***************************************************************************)
LoginSteps(r) == req'[r].kind = "login" /\ req'[r] # req[r]

C27_Step(r) ==
  LoginSteps(r) =>
    LET created == store' # store
        cookie == req'[r].resp.set # NoCookies
        parsed == parseCredentials(req'[r].ctype, req'[r].body).credentials
        failed == \/ ~parsed
                  \/ req'[r].pc = "done" /\ req'[r].up # 200
                  \/ req'[r].pc = "done" /\ req'[r].up = 200 /\ req'[r].token = <<>> IN
    /\ (created \/ cookie) =>
         /\ parsed
         /\ req'[r].up = 200
         /\ req'[r].token \in Tokens
    /\ failed => /\ store' = store
                 /\ issued' = issued
                 /\ req'[r].resp.set = NoCookies
                 /\ req'[r].newSid = NoSid
    /\ (req'[r].pc = "done" /\ req'[r].up = 200 /\ req'[r].token = <<>>) =>
         req'[r].resp = Json(502)

\* C27: the login route creates a session record and sets a session cookie
\* only after the upstream login answered with success and a non-empty
\* token; for an unparsable payload, an upstream rejection or failure, or a
\* success without a token (answered 502) the store is left as it was and
\* the response sets no session cookie.
C27_LoginCreatesOnlyOnSuccess == [][\A r \in Slots : C27_Step(r)]_vars

\* a login whose upstream answered ok without a token was answered 502 while
\* another session's record stayed in the store
C27_Witness ==
  \E r \in Slots :
    /\ req[r].kind = "login" /\ req[r].pc = "done"
    /\ req[r].up = 200 /\ req[r].token = <<>>
    /\ req[r].resp.status = 502 /\ req[r].resp.set = NoCookies
    /\ \E sid \in DOMAIN store : store[sid] # Null

Hydrating(r) == req[r].pc = "touch"

\* the touch of request r is the step taken
TouchStep(r) == Hydrating(r) /\ req'[r].pc # "touch" /\ ~req'[r].storeFailed

\* the token a login issued for the session id
IssuedFor(sid) == { i.token : i \in { j \in issued : j.jar.sid = sid } }

C29_Step ==
  /\ \A r \in Slots :
       TouchStep(r) =>
         LET sid == req[r].jar.sid
             mine == PayloadOf(req[r].sess[1]) IN
         \* last write wins: the record is the one this touch wrote
         /\ store'[sid] = Some([raw |-> JSONStringify(mine),
                                exp |-> now + SESSION_TTL_SECONDS])
         /\ \A k \in DOMAIN store : k # sid => store'[k] = store[k]
         \* the identity of the record it replaces is kept
         /\ (store[sid] # Null /\ store[sid][1].raw.json) =>
              LET old == store[sid][1].raw.val IN
              /\ mine.token = old.token
              /\ mine.username = old.username
              /\ mine.createdAt = old.createdAt
         \* the request goes on with the session it wrote
         /\ req'[r].sess = req[r].sess
  /\ \A r \in Slots :
       (usesDistributedSessionStore /\ req'[r].sess # Null /\ req'[r].kind # "login") =>
         /\ req'[r].sess[1].sid = req'[r].jar.sid
         /\ req'[r].sess[1].token \in IssuedFor(req'[r].jar.sid)
  /\ \A r, q \in Slots :
       (Hydrating(r) /\ Hydrating(q) /\ req[r].jar.sid = req[q].jar.sid) =>
         /\ req[r].sess[1].token = req[q].sess[1].token
         /\ req[r].sess[1].username = req[q].sess[1].username
         /\ req[r].sess[1].createdAt = req[q].sess[1].createdAt

\* C29: when several requests resolve one session concurrently, under every
\* interleaving of their get and touch steps each touch leaves in the store
\* exactly the record it wrote (last write wins, nothing merged), with the
\* token, username and createdAt of the record it replaces, and every
\* request receives a session with the token issued at login.
C29_ConcurrentTouchLastWriteWins == [][C29_Step]_vars

\* two requests resolve the same session: one read the record, time passed,
\* the other read and touched it, and the first is about to overwrite the
\* newer record with its older lastSeen
C29_Witness ==
  \E r, q \in Slots :
    /\ r # q
    /\ Hydrating(r) /\ req[q].pc = "fetch"
    /\ req[q].jar.sid = req[r].jar.sid
    /\ req[q].sess[1].lastSeen > req[r].sess[1].lastSeen
    /\ store[req[r].jar.sid] = Some([raw |-> JSONStringify(PayloadOf(req[q].sess[1])),
                          exp |-> now + SESSION_TTL_SECONDS])

(***************************************************************************)
(* Page guards.  getSessionFromServerCookies returns a session, returns    *)
(* null, or throws (the store is unreachable); the groups check of         *)
(* hasAdminAccess gets an upstream status or fails on the network.         *)
(***************************************************************************)
SessionResults == {"session", "none", "threw"}

NetworkError == -1

GroupsResults == {200, 204, 401, 403, 500, NetworkError}

\* a changed check: any success status of the groups request grants access
hasAdminAccessAnyOk(result) == result # NetworkError /\ result \in 200..299

\* try { return response.status === 200 } catch { return false }
hasAdminAccess(result) == IF result = NetworkError THEN FALSE ELSE result = 200

PageRoutes == {"/classes", "/admin/users", "/admin/groups/[groupId]"}

AdminRoutes == {"/admin/users", "/admin/groups/[groupId]"}

(***************************************************************************)
(* The guard calls of a route's server components, outermost first:        *)
(* ProtectedLayout (requireServerSession, hasAdminAccess for the sidebar), *)
(* AdminLayout (requireServerSession, hasAdminAccess or redirect), then    *)
(* the page (requireServerSession, where the page calls it).               *)
(***************************************************************************)
RouteGuards(route) ==
  IF route = "/classes" THEN <<"require", "sidebar", "require">>
  ELSE IF route = "/admin/users" THEN <<"require", "sidebar", "require", "admin">>
  ELSE <<"require", "sidebar", "require", "admin", "require">>

\* the guard call the render is at, or "none" when all have returned
NextGuard ==
  LET ops == RouteGuards(pg.route) IN
  IF pg.outcome = "running" /\ Len(pg.executed) < Len(ops)
    THEN ops[Len(pg.executed) + 1] ELSE "none"

\* redirect() throws NEXT_REDIRECT: nothing after it runs
Redirected(location) ==
  [pg EXCEPT !.executed = Append(pg.executed, NextGuard), !.outcome = "redirect",
             !.location = location]

InitPages ==
  /\ mode \in {"distributed", "standalone"}
  /\ SessionIdle
  /\ CompIdle

PgFrame == UNCHANGED <<sessionVars, cookieVars, storeVars, corrVars, pxVars, cfgVars>>

\* a route is requested: its layouts and page are about to run
PageStart ==
  /\ pg.outcome # "running"
  /\ \E route \in PageRoutes :
       pg' = [NoPage EXCEPT !.route = route, !.outcome = "running"]
  /\ PgFrame

\* requireServerSession: redirect("/login") without a session
RequireServerSession ==
  /\ NextGuard = "require"
  /\ \E result \in SessionResults :
       LET seen == [pg EXCEPT !.sessions = Append(pg.sessions, result)] IN
       pg' = IF result = "threw"
               THEN [seen EXCEPT !.executed = Append(pg.executed, "require"),
                                 !.outcome = "raised"]
             ELSE IF result = "none"
               THEN [seen EXCEPT !.executed = Append(pg.executed, "require"),
                                 !.outcome = "redirect", !.location = "/login"]
             ELSE [seen EXCEPT !.executed = Append(pg.executed, "require")]
  /\ PgFrame

\* ProtectedLayout: hasAdminAccess decides only whether the sidebar shows
\* the admin links
SidebarCheck ==
  /\ NextGuard = "sidebar"
  /\ \E result \in GroupsResults :
       pg' = [pg EXCEPT !.groups = Append(pg.groups, result),
                        !.executed = Append(pg.executed, "sidebar")]
  /\ PgFrame

\* AdminLayout: if (!canViewAdmin) redirect("/app")
AdminCheck ==
  /\ NextGuard = "admin"
  /\ \E result \in GroupsResults :
       LET seen == [pg EXCEPT !.groups = Append(pg.groups, result),
                              !.executed = Append(pg.executed, "admin")] IN
       pg' = IF hasAdminAccess(result) THEN seen
             ELSE [seen EXCEPT !.outcome = "redirect", !.location = "/app"]
  /\ PgFrame

\* every layout and the page have returned their elements
PageRendered ==
  /\ pg.outcome = "running"
  /\ pg.executed = RouteGuards(pg.route)
  /\ pg' = [pg EXCEPT !.outcome = "rendered"]
  /\ PgFrame

NextPages ==
  \/ PageStart
  \/ RequireServerSession
  \/ SidebarCheck
  \/ AdminCheck
  \/ PageRendered

SpecPages == InitPages /\ [][NextPages]_vars

\* the last element of a non-empty sequence
Last(seq) == seq[Len(seq)]

\* C30: page guards fail closed.  A route is rendered only after all its
\* guard calls ran and every requireServerSession returned a session; a
\* render whose session resolution finds no session is redirected to
\* /login; a route under the admin layout is rendered only if the layout's
\* groups check answered exactly 200, and any other status or a network
\* error of that check redirects to /app.
C30_GuardsFailClosed ==
  /\ pg.outcome = "rendered" =>
       /\ pg.executed = RouteGuards(pg.route)
       /\ pg.sessions # <<>>
       /\ \A i \in 1..Len(pg.sessions) : pg.sessions[i] = "session"
       /\ pg.route \in AdminRoutes => (Len(pg.groups) = 2 /\ pg.groups[2] = 200)
  /\ (pg.sessions # <<>> /\ Last(pg.sessions) = "none") =>
       pg.outcome = "redirect" /\ pg.location = "/login"
  /\ (pg.route \in AdminRoutes /\ Len(pg.groups) = 2 /\ pg.groups[2] # 200) =>
       pg.outcome = "redirect" /\ pg.location = "/app"
  /\ pg.outcome = "redirect" =>
       \/ pg.location = "/login" /\ Last(pg.sessions) = "none"
       \/ /\ pg.location = "/app" /\ pg.route \in AdminRoutes
          /\ Len(pg.groups) = 2 /\ pg.groups[2] # 200

\* an admin route with a session, the sidebar's check answered 200, and the
\* layout's check failed on the network: redirected to /app
C30_Witness ==
  /\ pg.route = "/admin/users"
  /\ pg.sessions = <<"session", "session">>
  /\ pg.groups = <<200, NetworkError>>
  /\ pg.outcome = "redirect" /\ pg.location = "/app"

====
